---- MODULE Spec2Model ----
(***************************************************************************)
(* A model of the asset decoding pipeline of quake_rs: the PAK archive     *)
(* reader (src/resource.rs), the frame/skin time selector, the MDL decoder *)
(* and the draw contracts of a decoded model (src/model.rs), and the       *)
(* animation library (src/animation.rs) as src/scene.rs builds it, the     *)
(* start-up of the global archive and palette (resource::init), the        *)
(* palette conversion, and the HID event bus (src/hid.rs).                 *)
(*                                                                         *)
(* Bytes are integers 0..255; a file or a buffer is a sequence of bytes;   *)
(* a name is the sequence of its (ASCII) bytes.  A cursor is the number of *)
(* bytes before it, so the byte under cursor p is file[p + 1].             *)
(***************************************************************************)
EXTENDS Integers, Sequences, FiniteSets, TLC

(***************************************************************************)
(* Bounds of the model.                                                    *)
(***************************************************************************)
\* the largest number of directory records an archive file physically holds
MaxFiles == 2
\* the number of threads that issue load_resource!, or init, concurrently
NumThreads == 2
\* the total number of lookups the threads start
MaxLookups == 2

(***************************************************************************)
(* Program constants.                                                      *)
(***************************************************************************)
\* the size of the PAK header: [0u8; 12]
PakHeaderLen == 12
\* the size of one directory record: [0u8; 64], num_files = len / 64
PakEntryLen == 64
\* the byte index of the file offset inside a record: entry_buf[56..60]
PakEntryOffsetAt == 56
\* the byte index of the file size inside a record: entry_buf[60..64]
PakEntrySizeAt == 60

(***************************************************************************)
(* Integer conversions.                                                    *)
(***************************************************************************)
\* i32::from_le_bytes: four bytes, least significant first, two's complement
I32FromLeBytes(b) ==
    b[1] + b[2] * 256 + b[3] * 65536
         + (IF b[4] >= 128 THEN b[4] - 256 ELSE b[4]) * 16777216

\* the layout i32::from_le_bytes reads: v in two's complement, low byte first
\* (\div and % round down, which is the arithmetic shift of two's complement)
I32ToLeBytes(v) ==
    << v % 256, (v \div 256) % 256, (v \div 65536) % 256, (v \div 16777216) % 256 >>

\* Rust's integer division: it truncates toward zero
TruncDiv(a, b) ==
    IF a >= 0 THEN a \div b ELSE -((-a) \div b)

\* iter().position(|&c| c == 0): the 0-based index of the first NUL, 0 for None
\* -1 stands for None
RECURSIVE PositionOfNul(_, _)
PositionOfNul(buf, i) ==
    IF i > Len(buf) THEN -1
    ELSE IF buf[i] = 0 THEN i - 1
    ELSE PositionOfNul(buf, i + 1)

(***************************************************************************)
(* The archive: state.                                                     *)
(***************************************************************************)
VARIABLES
    file,       \* Pak.file: the bytes of the archive file
    fpos,       \* Pak.file: the cursor of the one file handle
    directory,  \* Pak.directory: name -> <<offset, size>>
    pak,        \* "closed", then the outcome of Pak::open: "open", "err", "panic"
    records,    \* the records the archive file was written with, in file order
    header,     \* the signature and directory length the file was written with
    holder,     \* the thread that owns the MutexGuard of GLOBAL_RESOURCES, or 0
    poisoned,   \* the Mutex's poison flag: a thread panicked holding the guard
    pc,         \* per thread: its position inside load_resource!: "idle",
                \* "lookup", "seek", "read", "unlock" (Pak::read has returned),
                \* "panicked" (inside Pak::read), "poison_panic" (at lock().unwrap())
    req,        \* per thread: the name it looks up
    ent,        \* per thread: the <<offset, size>> its lookup found
    result,     \* per thread: what its last lookup returned
    lookups     \* the number of lookups started so far

pakVars == << file, fpos, directory, pak, records, header, holder, poisoned, pc, req,
              ent, result, lookups >>

(***************************************************************************)
(* The time selector (Skin::indices, Keyframe::frame): state.              *)
(***************************************************************************)
VARIABLES
    build,      \* "debug" (overflow checks on) or "release" (wrapping)
    timed,      \* the Skin or Keyframe that is queried
    elapsed,    \* the time of the last query, in microseconds; -1 before it
    selected    \* what the last query returned

selVars == << build, timed, elapsed, selected >>

(***************************************************************************)
(* The MDL decoder (Mdl::deserialize): state.                              *)
(***************************************************************************)
VARIABLES
    mdlDesc,    \* what the model buffer was written from
    mdlBuf,     \* the Vec<u8> under the Cursor
    mdlOut      \* what Mdl::deserialize returned: [st, pos, val]

mdlVars == << mdlDesc, mdlBuf, mdlOut >>

(***************************************************************************)
(* The decoded model's draw contracts (Mdl::indices, Mdl::vertices): state.*)
(***************************************************************************)
VARIABLES
    meshIdx,    \* what Mdl::indices returned
    meshFrame,  \* the Frame Mdl::vertices was called with
    meshVtx     \* what Mdl::vertices returned

meshVars == << meshIdx, meshFrame, meshVtx >>

(***************************************************************************)
(* The animation library (KeyframeAnimationComponent) and the part of      *)
(* Scene::create_alias_entity that builds it: state.                       *)
(***************************************************************************)
VARIABLES
    sceneMdl,           \* the decoded model scene assembly works on
    animations,         \* KeyframeAnimationComponent.animations
    current_animation,  \* .current_animation: << >> (None) or << name >>
    scenePc,            \* create_alias_entity: "loop" (lines 65-95), "animate"
                        \* (line 96), "done", or the panic that ended it:
                        \* "panic_todo", "panic_vertices", "panic_select",
                        \* "panic_animate"; "api" when the Animation is
                        \* used through its methods alone; "idle"
    sceneIdx,           \* the number of keyframes the for loop has consumed
    animTime,           \* the time of the last animate call; -1 before it
    animOut             \* what the last animate call returned, the clip
                        \* that was selected then, the pair of keyframes
                        \* find_keyframes returned to it, and the size of
                        \* the library (clips) and of the clip (len) then

animVars == << sceneMdl, animations, current_animation, scenePc, sceneIdx,
               animTime, animOut >>

(***************************************************************************)
(* resource::init and the palette (GLOBAL_RESOURCES, GLOBAL_PALETTE): state.*)
(* The Pak inside GLOBAL_RESOURCES is file, fpos, directory and poisoned.  *)
(***************************************************************************)
VARIABLES
    resources_cell, \* the OnceCell GLOBAL_RESOURCES: [state, by], state
                    \* "empty", "running" (thread `by` is inside the
                    \* closure of get_or_init) or "set"
    palette_cell,   \* the OnceCell GLOBAL_PALETTE: [state, by]
    palette,        \* the value of GLOBAL_PALETTE: 256 triples, << >> unset
    initPc,         \* per thread, its position inside init: "idle",
                    \* "resources" (line 22), "opening" (inside the closure
                    \* of line 22), "palette" (line 23), "reading" (inside
                    \* the closure of lines 23-38), "panicked"
    initPath,       \* per thread: the path it called init with
    opens,          \* how many times File::open has opened an archive file
    paletteReads,   \* how many times Pak::read has returned the palette
    inits,          \* the number of init calls started so far
    indices,        \* the buffer palette_index_to_rgba was called with
    rgba            \* what palette_index_to_rgba returned: [st, val]

resVars == << resources_cell, palette_cell, palette, initPc, initPath, opens,
              paletteReads, inits, indices, rgba >>

(***************************************************************************)
(* The HID event bus (HIDEventBus): state.                                 *)
(***************************************************************************)
VARIABLES
    queue,          \* the unbounded crossbeam channel: the queued events
    subscribers,    \* the number of threads subscribe has spawned
    inHand,         \* per subscriber thread: << >>, or << event >> between
                    \* the receive and the call of the callback
    delivered,      \* per subscriber thread: the events its callback got
    published       \* the number of events publish has sent

hidVars == << queue, subscribers, inHand, delivered, published >>

vars == << pakVars, selVars, mdlVars, meshVars, animVars, resVars, hidVars >>

\* the variables the archive's operations never touch
nonPakVars == << selVars, mdlVars, meshVars, animVars, resVars, hidVars >>

\* the variables the selector's operations never touch
nonSelVars == << pakVars, mdlVars, meshVars, animVars, resVars, hidVars >>

\* the variables the decoder's operations never touch
nonMdlVars == << pakVars, selVars, meshVars, animVars, resVars, hidVars >>

\* the variables the draw contracts never touch
nonMeshVars == << pakVars, selVars, mdlVars, animVars, resVars, hidVars >>

\* the variables the animation library never touches
nonAnimVars == << pakVars, selVars, mdlVars, meshVars, resVars, hidVars >>

\* the variables neither init nor the palette conversion touches, besides
\* the Pak inside GLOBAL_RESOURCES
nonResVars == << selVars, mdlVars, meshVars, animVars, hidVars >>

\* the variables the event bus never touches
nonHidVars == << pakVars, selVars, mdlVars, meshVars, animVars, resVars >>

Threads == 1 .. NumThreads

NoResult == [kind |-> "None", err |-> "", bytes |-> << >>]
OkResult(b) == [kind |-> "Ok", err |-> "", bytes |-> b]
ErrResult(e) == [kind |-> "Err", err |-> e, bytes |-> << >>]

\* HashMap::new(): the map with no key
EmptyDirectory == [n \in {} |-> << 0, 0 >>]

(***************************************************************************)
(* The archive: the file format.                                           *)
(***************************************************************************)
\* b"PACK"
PackSignature == << 80, 65, 67, 75 >>

\* the names of the model: "a", "b" in records; "c" is never in an archive
NameA == << 97 >>
NameB == << 98 >>
NameC == << 99 >>

\* the asset bytes that follow the header, at file offsets 12..15
AssetBytes == << 1, 2, 3, 4 >>

Zeros(n) == [i \in 1 .. n |-> 0]

\* a 64-byte directory record: NUL-padded name, offset, size
RecordBytes(r) ==
    r.name \o Zeros(PakEntryOffsetAt - Len(r.name))
           \o I32ToLeBytes(r.offset) \o I32ToLeBytes(r.size)

RECURSIVE DirectoryBytes(_)
DirectoryBytes(rs) ==
    IF rs = << >> THEN << >>
    ELSE RecordBytes(Head(rs)) \o DirectoryBytes(Tail(rs))

\* an archive file: header, asset bytes, directory
ArchiveBytes(sig, dirOffset, dirLen, rs) ==
    sig \o I32ToLeBytes(dirOffset) \o I32ToLeBytes(dirLen)
        \o AssetBytes \o DirectoryBytes(rs)

\* where the directory of an archive of the model starts
DirAt == PakHeaderLen + Len(AssetBytes)

(***************************************************************************)
(* Pak::open.                                                              *)
(***************************************************************************)
\* directory.insert(name, (file_offset, file_size)): HashMap::insert replaces
DirInsertFirstWins(dir, name, e) ==
    IF name \in DOMAIN dir THEN dir
    ELSE [n \in DOMAIN dir \cup {name} |-> IF n = name THEN e ELSE dir[n]]

DirInsert(dir, name, e) ==
    [n \in DOMAIN dir \cup {name} |-> IF n = name THEN e ELSE dir[n]]

\* the name of a record: the bytes before the first NUL of the 64 bytes,
\* and the empty name when no byte of the record is NUL
EntryName(entry_buf) ==
    LET p == PositionOfNul(entry_buf, 1)
        len == IF p = -1 THEN 0 ELSE p
    IN  SubSeq(entry_buf, 1, len)

\* offset += 64
NextEntryOffsetStuck(offset) == offset

NextEntryOffset(offset) == offset + PakEntryLen

\* for _ in 0..num_files { seek; read_exact; insert; offset += 64 }
RECURSIVE ReadEntries(_, _, _, _, _)
ReadEntries(f, offset, left, dir, pos) ==
    IF left <= 0 THEN [status |-> "open", directory |-> dir, pos |-> pos]
    ELSE IF offset < 0
        \* SeekFrom::Start(offset as u64): lseek refuses the offset
        THEN [status |-> "err", directory |-> dir, pos |-> pos]
    ELSE IF offset + PakEntryLen > Len(f)
        \* read_exact: UnexpectedEof
        THEN [status |-> "err", directory |-> dir,
              pos |-> IF offset > Len(f) THEN offset ELSE Len(f)]
    ELSE LET entry_buf == SubSeq(f, offset + 1, offset + PakEntryLen)
             file_offset == I32FromLeBytes(
                 SubSeq(entry_buf, PakEntryOffsetAt + 1, PakEntryOffsetAt + 4))
             file_size == I32FromLeBytes(
                 SubSeq(entry_buf, PakEntrySizeAt + 1, PakEntrySizeAt + 4))
         IN  ReadEntries(f, NextEntryOffset(offset), left - 1,
                         DirInsert(dir, EntryName(entry_buf),
                                   << file_offset, file_size >>),
                         offset + PakEntryLen)

Pak_open(f) ==
    IF Len(f) < PakHeaderLen
        THEN [status |-> "err", directory |-> EmptyDirectory, pos |-> Len(f)]
    ELSE IF SubSeq(f, 1, 4) # PackSignature
        THEN [status |-> "err", directory |-> EmptyDirectory, pos |-> PakHeaderLen]
    ELSE LET offset == I32FromLeBytes(SubSeq(f, 5, 8))
             num_files == TruncDiv(I32FromLeBytes(SubSeq(f, 9, 12)), PakEntryLen)
         IN  IF num_files < 0
                 \* HashMap::with_capacity(num_files as usize): capacity overflow
                 THEN [status |-> "panic", directory |-> EmptyDirectory,
                       pos |-> PakHeaderLen]
                 ELSE ReadEntries(f, offset, num_files, EmptyDirectory,
                                  PakHeaderLen)

\* the selector at rest, for the specifications that leave it alone
SelIdle ==
    /\ build = "debug"
    /\ timed = [kind |-> "skin", variant |-> "Static", durations |-> << >>]
    /\ elapsed = -1
    /\ selected = [kind |-> "None", index |-> 0]

\* the decoder at rest, for the specifications that leave it alone
MdlIdle ==
    /\ mdlDesc = << >>
    /\ mdlBuf = << >>
    /\ mdlOut = [st |-> "None", pos |-> 0, val |-> << >>]

\* Mdl::indices and Mdl::vertices not called
NoMesh == [st |-> "None", val |-> << >>]

\* the draw contracts at rest, for the specifications that leave them alone
MeshIdle ==
    /\ meshIdx = NoMesh
    /\ meshFrame = << >>
    /\ meshVtx = NoMesh

\* HashMap::new(): the library with no clip
EmptyLibrary == [n \in {} |-> << >>]

\* animate not called
NoAnimation ==
    [kind |-> "NotCalled", clip |-> << >>, prev |-> 0, next |-> 0,
     vertices |-> << >>, clips |-> 0, len |-> 0]

\* no entity is being assembled, for the specifications without a scene
AnimIdle ==
    /\ sceneMdl = << >>
    /\ animations = EmptyLibrary
    /\ current_animation = << >>
    /\ scenePc = "idle"
    /\ sceneIdx = 0
    /\ animTime = -1
    /\ animOut = NoAnimation

\* OnceCell::new()
EmptyCell == [state |-> "empty", by |-> 0]

\* palette_index_to_rgba not called
NoRgba == [st |-> "None", val |-> << >>]

\* init never called, for the specifications without it
ResIdle ==
    /\ resources_cell = EmptyCell
    /\ palette_cell = EmptyCell
    /\ palette = << >>
    /\ initPc = [t \in Threads |-> "idle"]
    /\ initPath = [t \in Threads |-> ""]
    /\ opens = 0
    /\ paletteReads = 0
    /\ inits = 0
    /\ indices = << >>
    /\ rgba = NoRgba

\* no event bus, for the specifications without it
HidIdle ==
    /\ queue = << >>
    /\ subscribers = 0
    /\ inHand = << >>
    /\ delivered = << >>
    /\ published = 0

\* the archive at rest, for the specifications that leave it alone
PakIdle ==
    /\ file = << >>
    /\ fpos = 0
    /\ directory = EmptyDirectory
    /\ pak = "closed"
    /\ records = << >>
    /\ header = [sig |-> PackSignature, dirLen |-> 0]
    /\ holder = 0
    /\ poisoned = FALSE
    /\ pc = [t \in Threads |-> "idle"]
    /\ req = [t \in Threads |-> << >>]
    /\ ent = [t \in Threads |-> << 0, 0 >>]
    /\ result = [t \in Threads |-> NoResult]
    /\ lookups = 0

(***************************************************************************)
(* The archives of the model.                                              *)
(***************************************************************************)
\* <<offset, size>> of a record: two ranges of asset bytes, a negative size,
\* a negative offset, a range past the end of the file
ExtentChoices ==
    { << 12, 2 >>, << 14, 2 >>, << 14, -1 >>, << -1, 2 >>, << 1000, 2 >> }

RecordChoices ==
    { [name |-> n, offset |-> e[1], size |-> e[2]] :
        n \in {NameA, NameB}, e \in ExtentChoices }

RecordSeqs == UNION { [1 .. n -> RecordChoices] : n \in 0 .. MaxFiles }

\* the header of an archive that holds the records rs: a well-formed one, one
\* whose length is no multiple of 64, one that announces a record too many,
\* one with a negative length, one with a bad signature
HeaderChoices(rs) ==
    { [sig |-> PackSignature, dirLen |-> PakEntryLen * Len(rs)],
      [sig |-> PackSignature, dirLen |-> PakEntryLen * Len(rs) + 63],
      [sig |-> PackSignature, dirLen |-> PakEntryLen * (Len(rs) + 1)],
      [sig |-> PackSignature, dirLen |-> -PakEntryLen],
      [sig |-> << 80, 65, 67, 77 >>, dirLen |-> PakEntryLen * Len(rs)] }

InitPak ==
    /\ records \in RecordSeqs
    /\ header \in HeaderChoices(records)
    /\ file = ArchiveBytes(header.sig, DirAt, header.dirLen, records)
    /\ fpos = 0
    /\ directory = EmptyDirectory
    /\ pak = "closed"
    /\ holder = 0
    /\ poisoned = FALSE
    /\ pc = [t \in Threads |-> "idle"]
    /\ req = [t \in Threads |-> << >>]
    /\ ent = [t \in Threads |-> << 0, 0 >>]
    /\ result = [t \in Threads |-> NoResult]
    /\ lookups = 0
    /\ SelIdle
    /\ MdlIdle
    /\ MeshIdle
    /\ AnimIdle
    /\ ResIdle
    /\ HidIdle

(***************************************************************************)
(* resource::init: GLOBAL_RESOURCES.get_or_init(|| Mutex::new(Pak::open)).  *)
(***************************************************************************)
Open ==
    /\ pak = "closed"
    /\ LET r == Pak_open(file)
       IN  /\ pak' = r.status
           /\ directory' = r.directory
           /\ fpos' = r.pos
    /\ UNCHANGED << file, header, records, holder, poisoned, pc, req, ent,
                    result, lookups >>
    /\ UNCHANGED nonPakVars

(***************************************************************************)
(* load_resource!: GLOBAL_RESOURCES.get().unwrap().lock().unwrap().read(n) *)
(***************************************************************************)
\* Mutex::lock blocks until no thread holds the guard
LockAvailableAlways == TRUE

LockAvailable == holder = 0

\* .lock().unwrap(): the guard is taken; a poisoned Mutex makes unwrap panic,
\* and the guard inside the PoisonError is dropped at once
Lock(t, n) ==
    /\ pak = "open"
    /\ pc[t] = "idle"
    /\ lookups < MaxLookups
    /\ LockAvailable
    /\ lookups' = lookups + 1
    /\ req' = [req EXCEPT ![t] = n]
    /\ result' = [result EXCEPT ![t] = NoResult]
    /\ IF poisoned
          THEN /\ pc' = [pc EXCEPT ![t] = "poison_panic"]
               /\ UNCHANGED holder
          ELSE /\ pc' = [pc EXCEPT ![t] = "lookup"]
               /\ holder' = t
    /\ UNCHANGED << file, header, records, fpos, directory, pak, poisoned, ent >>
    /\ UNCHANGED nonPakVars

\* Pak::read, lines 138-140 and 146-149: directory.get(name); on a hit the
\* buffer vec![0; size as usize], whose allocation panics for a negative size
\* (capacity overflow) and poisons the Mutex as the guard unwinds
Pak_read_lookup_SeekOnMiss(t) ==
    /\ pc[t] = "lookup"
    /\ IF req[t] \notin DOMAIN directory
          THEN /\ result' = [result EXCEPT ![t] = ErrResult("NotFound")]
               /\ pc' = [pc EXCEPT ![t] = "unlock"]
               /\ fpos' = 0
               /\ UNCHANGED << ent, poisoned, holder >>
          ELSE IF directory[req[t]][2] < 0
          THEN /\ pc' = [pc EXCEPT ![t] = "panicked"]
               /\ poisoned' = TRUE
               /\ holder' = IF holder = t THEN 0 ELSE holder
               /\ UNCHANGED << ent, result, fpos >>
          ELSE /\ ent' = [ent EXCEPT ![t] = directory[req[t]]]
               /\ pc' = [pc EXCEPT ![t] = "seek"]
               /\ UNCHANGED << result, poisoned, holder, fpos >>
    /\ UNCHANGED << file, header, records, directory, pak, req, lookups >>
    /\ UNCHANGED nonPakVars

Pak_read_lookup(t) ==
    /\ pc[t] = "lookup"
    /\ IF req[t] \notin DOMAIN directory
          THEN /\ result' = [result EXCEPT ![t] = ErrResult("NotFound")]
               /\ pc' = [pc EXCEPT ![t] = "unlock"]
               /\ UNCHANGED << ent, poisoned, holder >>
          ELSE IF directory[req[t]][2] < 0
          THEN /\ pc' = [pc EXCEPT ![t] = "panicked"]
               /\ poisoned' = TRUE
               /\ holder' = IF holder = t THEN 0 ELSE holder
               /\ UNCHANGED << ent, result >>
          ELSE /\ ent' = [ent EXCEPT ![t] = directory[req[t]]]
               /\ pc' = [pc EXCEPT ![t] = "seek"]
               /\ UNCHANGED << result, poisoned, holder >>
    /\ UNCHANGED << file, header, records, fpos, directory, pak, req, lookups >>
    /\ UNCHANGED nonPakVars

\* File::seek(SeekFrom::Start(offset as u64)): where the cursor goes; a
\* negative i32 becomes a u64 above i64::MAX, which lseek refuses (-1 here)
SeekTargetRelative(pos, offset) ==
    IF offset < 0 THEN -1 ELSE pos + offset

SeekTarget(pos, offset) ==
    IF offset < 0 THEN -1 ELSE offset

\* Pak::read, line 141
Pak_read_seek(t) ==
    /\ pc[t] = "seek"
    /\ LET target == SeekTarget(fpos, ent[t][1])
       IN  IF target < 0
              THEN /\ result' = [result EXCEPT ![t] = ErrResult("InvalidInput")]
                   /\ pc' = [pc EXCEPT ![t] = "unlock"]
                   /\ UNCHANGED fpos
              ELSE /\ fpos' = target
                   /\ pc' = [pc EXCEPT ![t] = "read"]
                   /\ UNCHANGED result
    /\ UNCHANGED << file, header, records, directory, pak, holder, poisoned,
                    req, ent, lookups >>
    /\ UNCHANGED nonPakVars

\* Pak::read, lines 142-144: read_exact fills the buffer from the cursor, or
\* stops at the end of the file with UnexpectedEof
Pak_read_exact(t) ==
    /\ pc[t] = "read"
    /\ LET size == ent[t][2]
       IN  IF fpos + size <= Len(file)
              THEN /\ result' = [result EXCEPT
                          ![t] = OkResult(SubSeq(file, fpos + 1, fpos + size))]
                   /\ fpos' = fpos + size
              ELSE /\ result' = [result EXCEPT ![t] = ErrResult("UnexpectedEof")]
                   /\ fpos' = IF fpos > Len(file) THEN fpos ELSE Len(file)
    /\ pc' = [pc EXCEPT ![t] = "unlock"]
    /\ UNCHANGED << file, header, records, directory, pak, holder, poisoned,
                    req, ent, lookups >>
    /\ UNCHANGED nonPakVars

\* the MutexGuard, a temporary of the macro's expression, is dropped
Unlock(t) ==
    /\ pc[t] = "unlock"
    /\ holder' = IF holder = t THEN 0 ELSE holder
    /\ pc' = [pc EXCEPT ![t] = "idle"]
    /\ UNCHANGED << file, header, records, fpos, directory, pak, poisoned,
                    req, ent, result, lookups >>
    /\ UNCHANGED nonPakVars

LookupNames == {NameA, NameB, NameC}

NextPak ==
    \/ Open
    \/ \E t \in Threads, n \in LookupNames : Lock(t, n)
    \/ \E t \in Threads : Pak_read_lookup(t)
    \/ \E t \in Threads : Pak_read_seek(t)
    \/ \E t \in Threads : Pak_read_exact(t)
    \/ \E t \in Threads : Unlock(t)

SpecPak == InitPak /\ [][NextPak]_vars

(***************************************************************************)
(* The archive: what the claims are stated with.                           *)
(***************************************************************************)
\* the number of records the header announces
AnnouncedEntries == TruncDiv(header.dirLen, PakEntryLen)

\* the header the archive format asks for: signature, length 64 * N
WellFormedHeader ==
    /\ header.sig = PackSignature
    /\ header.dirLen = PakEntryLen * Len(records)

RecordNames == { records[i].name : i \in 1 .. Len(records) }

DistinctNames ==
    \A i, j \in 1 .. Len(records) : records[i].name = records[j].name => i = j

\* the last record of the file that carries the name n
LastRecordNamed(n) ==
    LET i == CHOOSE k \in 1 .. Len(records) :
                 /\ records[k].name = n
                 /\ \A j \in (k + 1) .. Len(records) : records[j].name # n
    IN  records[i]

\* the bytes of the file at [offset, offset + size)
BytesAt(offset, size) == SubSeq(file, offset + 1, offset + size)

\* the range <<offset, size>> lies within the file
InExtent(e) == e[1] >= 0 /\ e[2] >= 0 /\ e[1] + e[2] <= Len(file)

\* the threads inside the scope of the MutexGuard
InGuard == { t \in Threads : pc[t] \in {"lookup", "seek", "read", "unlock"} }

\* C1: concurrent lookups through load_resource! are serialized: at most one
\* thread is between taking and dropping the guard; the cursor a thread reads
\* from is the one its own seek set; the bytes a lookup returns are those of
\* the entry it asked for.
C1_LookupsSerialized ==
    /\ Cardinality(InGuard) <= 1
    /\ \A t \in Threads : pc[t] \in {"lookup", "seek", "read", "unlock"} => holder = t
    /\ \A t \in Threads : pc[t] = "read" => fpos = ent[t][1]
    /\ \A t \in Threads :
          result[t].kind = "Ok" =>
              LET r == LastRecordNamed(req[t])
              IN  result[t].bytes = BytesAt(r.offset, r.size)

\* C1, witness: two threads have each completed a lookup, of entries at
\* different places, and one of them is again inside a lookup
C1_Witness ==
    \E t, u \in Threads :
        /\ t # u
        /\ result[t].kind = "Ok" /\ pc[t] = "unlock"
        /\ result[u].kind = "Ok" /\ pc[u] = "idle"
        /\ ent[t][1] # ent[u][1]

\* C2, as stated: a read of a name of the directory returns the size bytes
\* of the file at the entry's offset.
C2_ReadReturnsEntryBytes ==
    \A t \in Threads :
        (pc[t] = "unlock" /\ req[t] \in DOMAIN directory) =>
            LET e == directory[req[t]]
            IN  /\ result[t].kind = "Ok"
                /\ Len(result[t].bytes) = e[2]
                /\ result[t].bytes = BytesAt(e[1], e[2])

\* C2, amended: a read of a name whose entry lies within the file returns
\* (it does not panic) the size bytes of the file at the entry's offset,
\* whatever reads came before.
C2_ReadReturnsInExtentBytes ==
    \A t \in Threads :
        (req[t] \in DOMAIN directory /\ InExtent(directory[req[t]])) =>
            LET e == directory[req[t]]
            IN  /\ pc[t] # "panicked"
                /\ pc[t] = "unlock" =>
                      /\ result[t].kind = "Ok"
                      /\ Len(result[t].bytes) = e[2]
                      /\ result[t].bytes = BytesAt(e[1], e[2])

\* C2, witness: a read of an in-extent entry has returned after an earlier
\* lookup moved the cursor elsewhere
C2_Witness ==
    \E t \in Threads :
        /\ pc[t] = "unlock"
        /\ lookups >= 2
        /\ req[t] \in DOMAIN directory
        /\ InExtent(directory[req[t]])
        /\ result[t].kind = "Ok"
        /\ \E u \in Threads : u # t /\ result[u].kind # "None"
                               /\ ent[u] # ent[t]

\* C3: a read of a name that is not in the directory returns NotFound and
\* leaves the directory and the cursor as they were.
C3_MissLeavesState ==
    [][\A t \in Threads :
          (pc[t] = "lookup" /\ pc'[t] # "lookup" /\ req[t] \notin DOMAIN directory)
            => /\ result'[t] = ErrResult("NotFound")
               /\ pc'[t] = "unlock"
               /\ fpos' = fpos
               /\ directory' = directory]_vars

\* C3, witness: a read has returned NotFound
C3_Witness ==
    \E t \in Threads :
        /\ pc[t] = "unlock"
        /\ req[t] \notin DOMAIN directory
        /\ result[t] = ErrResult("NotFound")

\* C4, as stated: an archive opened with N records has a directory of
\* exactly N mappings, each the <<offset, size>> of its record.
C4_DirectoryHasNMappings ==
    (pak = "open" /\ WellFormedHeader) =>
        /\ Cardinality(DOMAIN directory) = Len(records)
        /\ \A i \in 1 .. Len(records) :
              /\ records[i].name \in DOMAIN directory
              /\ directory[records[i].name]
                     = << records[i].offset, records[i].size >>

\* C4, amended: an archive opened with N records of pairwise distinct names
\* has a directory of exactly N mappings, each the <<offset, size>> of its
\* record.
C4_DistinctNamesHaveNMappings ==
    (pak = "open" /\ WellFormedHeader /\ DistinctNames) =>
        /\ Cardinality(DOMAIN directory) = Len(records)
        /\ \A i \in 1 .. Len(records) :
              /\ records[i].name \in DOMAIN directory
              /\ directory[records[i].name]
                     = << records[i].offset, records[i].size >>

\* C4, witness: an opened archive of two records with distinct names
C4_Witness ==
    /\ pak = "open"
    /\ WellFormedHeader
    /\ DistinctNames
    /\ Len(records) = 2

\* C5: when records share a name, open succeeds and the name maps to the
\* <<offset, size>> of the last record that carries it.
C5_LastRecordWins ==
    (pak # "closed" /\ WellFormedHeader) =>
        /\ pak = "open"
        /\ DOMAIN directory = RecordNames
        /\ \A n \in RecordNames :
              directory[n] = << LastRecordNamed(n).offset, LastRecordNamed(n).size >>

\* C5, witness: an opened archive whose two records share a name and differ
\* in offset and size
C5_Witness ==
    /\ pak = "open"
    /\ WellFormedHeader
    /\ Len(records) = 2
    /\ records[1].name = records[2].name
    /\ records[1].offset # records[2].offset
    /\ records[1].size # records[2].size

\* C6: an entry whose <<offset, size>> is not within the file is reported as
\* an error by the read of that entry, and the read never panics.
C6_OutOfExtentIsError ==
    \A t \in Threads :
        (req[t] \in DOMAIN directory /\ ~InExtent(directory[req[t]])) =>
            /\ pc[t] # "panicked"
            /\ pc[t] = "unlock" => result[t].kind = "Err"

(***************************************************************************)
(* The time selector: Skin::indices and Keyframe::frame.                   *)
(*                                                                         *)
(* A Duration is its number of microseconds (the decoder builds every      *)
(* duration with Duration::from_micros).  A Skin or Keyframe is            *)
(* [kind, variant, durations]: the payload of the i-th timed entry is      *)
(* named by its index i, the payload of a Static one by index 1.           *)
(*                                                                         *)
(* drift is a u128.  With overflow checks (debug) a subtraction below 0    *)
(* panics; without them (release) it wraps modulo 2^128.  The model keeps  *)
(* the unwrapped integer: every value of the model is far below 2^128 in   *)
(* magnitude, so the wrapped drift is 0 exactly when the integer is 0, and *)
(* `drift <= 0` on a u128 is `drift == 0`.                                 *)
(***************************************************************************)
\* Duration::as_millis
AsMillis(us) == us \div 1000

\* s.0.iter().fold(Duration::ZERO, |acc, f| acc + f.duration)
RECURSIVE SumDurations(_)
SumDurations(durs) ==
    IF durs = << >> THEN 0 ELSE Head(durs) + SumDurations(Tail(durs))

SelOk(i) == [kind |-> "Ok", index |-> i]
SelPanic == [kind |-> "Panic", index |-> 0]

\* for frame in list { drift -= frame.duration.as_millis();
\*                     if drift <= 0 { return } }  unreachable!()
RECURSIVE DriftLoop(_, _, _, _)
DriftLoop(durs, i, drift, b) ==
    IF i > Len(durs) THEN SelPanic
    ELSE LET d == AsMillis(durs[i])
         IN  IF b = "debug" /\ drift < d THEN SelPanic
             ELSE IF drift - d = 0 THEN SelOk(i)
             ELSE DriftLoop(durs, i + 1, drift - d, b)

\* let mut drift = time.as_millis() - total.as_millis(); then the loop
SelectByDrift(durs, time, b) ==
    LET total == SumDurations(durs)
    IN  IF b = "debug" /\ AsMillis(time) < AsMillis(total) THEN SelPanic
        ELSE DriftLoop(durs, 1, AsMillis(time) - AsMillis(total), b)

Skin_indices(self, time, b) ==
    IF self.variant = "Static" THEN SelOk(1)
    ELSE SelectByDrift(self.durations, time, b)

Keyframe_frame(self, time, b) ==
    IF self.variant = "Static" THEN SelOk(1)
    ELSE SelectByDrift(self.durations, time, b)

\* the largest number of timed entries of an animated list
MaxEntries == 2

\* durations, in microseconds: none, half a millisecond, 100 ms, 200 ms
DurationChoices == { 0, 500, 100000, 200000 }

\* elapsed times, in microseconds
ElapsedChoices ==
    { 0, 999, 50000, 100000, 250000, 300000, 350000, 400000, 600000, 900000 }

TimedChoices ==
    { [kind |-> k, variant |-> "Static", durations |-> << >>] :
        k \in {"skin", "keyframe"} }
    \cup
    { [kind |-> k, variant |-> "Animated", durations |-> ds] :
        k \in {"skin", "keyframe"},
        ds \in UNION { [1 .. n -> DurationChoices] : n \in 0 .. MaxEntries } }

InitSel ==
    /\ build \in {"debug", "release"}
    /\ timed \in TimedChoices
    /\ elapsed = -1
    /\ selected = [kind |-> "None", index |-> 0]
    /\ PakIdle
    /\ MdlIdle
    /\ MeshIdle
    /\ AnimIdle
    /\ ResIdle
    /\ HidIdle

QuerySkin(time) ==
    /\ timed.kind = "skin"
    /\ elapsed' = time
    /\ selected' = Skin_indices(timed, time, build)
    /\ UNCHANGED << build, timed >>
    /\ UNCHANGED nonSelVars

QueryKeyframe(time) ==
    /\ timed.kind = "keyframe"
    /\ elapsed' = time
    /\ selected' = Keyframe_frame(timed, time, build)
    /\ UNCHANGED << build, timed >>
    /\ UNCHANGED nonSelVars

NextSel ==
    \/ \E time \in ElapsedChoices : QuerySkin(time)
    \/ \E time \in ElapsedChoices : QueryKeyframe(time)

SpecSel == InitSel /\ [][NextSel]_vars

\* the number of payloads the queried Skin or Keyframe holds
Payloads == IF timed.variant = "Static" THEN 1 ELSE Len(timed.durations)

\* d_1 + ... + d_k
RECURSIVE Cumulative(_, _)
Cumulative(durs, k) ==
    IF k = 0 THEN 0 ELSE durs[k] + Cumulative(durs, k - 1)

\* the first entry whose cumulative span covers the phase: the span taken
\* as [start, end) or as (start, end]
FirstCovering(durs, phase) ==
    CHOOSE k \in 1 .. Len(durs) :
        /\ phase < Cumulative(durs, k)
        /\ \A j \in 1 .. (k - 1) : ~(phase < Cumulative(durs, j))

FirstCoveringClosed(durs, phase) ==
    CHOOSE k \in 1 .. Len(durs) :
        /\ phase <= Cumulative(durs, k)
        /\ \A j \in 1 .. (k - 1) : ~(phase <= Cumulative(durs, j))

\* C7: for every elapsed time and every non-empty list the selection returns
\* exactly one payload of the list and never fails.
C7_SelectionNeverFails ==
    (elapsed >= 0 /\ Payloads >= 1) =>
        /\ selected.kind = "Ok"
        /\ selected.index \in 1 .. Payloads

\* C8: the selection returns the first entry whose cumulative span covers
\* the phase elapsed mod (d_1 + ... + d_n); for durations 100 ms and 200 ms
\* the first entry at 50 ms, the second at 250 ms, the first again at 350 ms.
C8_SelectionCoversPhase ==
    (/\ elapsed >= 0
     /\ timed.variant = "Animated"
     /\ Payloads >= 1
     /\ SumDurations(timed.durations) > 0) =>
        LET phase == elapsed % SumDurations(timed.durations)
        IN  /\ selected.kind = "Ok"
            /\ selected.index \in { FirstCovering(timed.durations, phase),
                                    FirstCoveringClosed(timed.durations, phase) }
            /\ timed.durations = << 100000, 200000 >> =>
                  /\ elapsed = 50000 => selected.index = 1
                  /\ elapsed = 250000 => selected.index = 2
                  /\ elapsed = 350000 => selected.index = 1

\* C9: a Skin or Keyframe that holds exactly one payload returns it for
\* every elapsed time.
C9_SinglePayloadAlwaysSelected ==
    (elapsed >= 0 /\ Payloads = 1) => selected = SelOk(1)

(***************************************************************************)
(* The MDL decoder: reading from a Cursor<Vec<u8>>.                        *)
(*                                                                         *)
(* A read returns [st, pos, val]: st is "Ok", "Err" (the io::Error that ?  *)
(* propagates) or "Panic"; pos is the cursor after the read.               *)
(***************************************************************************)
Done(pos, val) == [st |-> "Ok", pos |-> pos, val |-> val]
\* an Err of a read is the io::Error UnexpectedEof; val names the error
Fail(st, pos) ==
    [st |-> st, pos |-> pos,
     val |-> IF st = "Err" THEN "UnexpectedEof" ELSE "panic"]

\* Err(io::Error::new(ErrorKind::InvalidData, msg))
Invalid(msg, pos) == [st |-> "Err", pos |-> pos, val |-> msg]

\* `let v = r; K(v)`: r is evaluated once, then K continues with its value
Bind(r, K(_)) == CHOOSE out \in { K(v) : v \in {r} } : TRUE

\* `let v = r?; K(v)`: an Err (or a panic) of r ends the function with it
Try(r, K(_)) == Bind(r, LAMBDA v : IF v.st # "Ok" THEN v ELSE K(v))

\* Cursor::read_exact: n bytes from the cursor, or UnexpectedEof with the
\* cursor left at the end of the buffer
ReadExact(buf, pos, n) ==
    IF pos + n <= Len(buf)
        THEN Done(pos + n, SubSeq(buf, pos + 1, pos + n))
        ELSE Fail("Err", Len(buf))

\* ReadBytesExt::read_u8
ReadU8(buf, pos) ==
    Try(ReadExact(buf, pos, 1), LAMBDA r : Done(r.pos, r.val[1]))

\* ReadBytesExt::read_i32::<LittleEndian>
ReadI32(buf, pos) ==
    Try(ReadExact(buf, pos, 4), LAMBDA r : Done(r.pos, I32FromLeBytes(r.val)))

\* ReadBytesExt::read_f32::<LittleEndian>: the four bytes of the float
ReadF32(buf, pos) == ReadExact(buf, pos, 4)

\* .unwrap() on a read: an Err becomes a panic
Unwrap(r) ==
    Bind(r, LAMBDA v : IF v.st = "Err" THEN Fail("Panic", v.pos) ELSE v)

\* 2^k for the exponents an f32 with an integer part below 2^24 has
Pow2(k) == 2 ^ k

\* `f as usize` of an f32 given by its bytes: the value truncated toward zero;
\* 0 for a NaN, a negative value or a value below 1; values of 2^24 and more
\* (exponent above 23) are outside the model and stand as 2^24
F32AsUsize(b) ==
    LET negative == b[4] >= 128
        exponent == (b[4] % 128) * 2 + (b[3] \div 128)
        mantissa == (b[3] % 128) * 65536 + b[2] * 256 + b[1]
    IN  IF negative THEN 0
        ELSE IF exponent = 255 THEN (IF mantissa = 0 THEN Pow2(24) ELSE 0)
        ELSE IF exponent < 127 THEN 0
        ELSE IF exponent - 127 > 23 THEN Pow2(24)
        ELSE (Pow2(23) + mantissa) \div Pow2(23 - (exponent - 127))

\* the f32 with the integer value n, 0 <= n <= 3, as bytes
F32OfSmall(n) ==
    CASE n = 0 -> << 0, 0, 0, 0 >>
      [] n = 1 -> << 0, 0, 128, 63 >>
      [] n = 2 -> << 0, 0, 0, 64 >>
      [] n = 3 -> << 0, 0, 64, 64 >>

\* the bytes of the f32 nearest to 0.1 and to 0.2
F32Tenth == << 205, 204, 204, 61 >>
F32Fifth == << 205, 204, 76, 62 >>

\* Duration::from_micros((duration * 1_000_000.0) as u64), in microseconds,
\* for the floats the buffers of the model hold
DurationOfF32(b) ==
    CASE b = F32Tenth -> 100000
      [] b = F32Fifth -> 200000
      [] b = F32OfSmall(1) -> 1000000
      [] OTHER -> 0

\* Vertex1XYZ1N1UV::read_packed_position: three read_u8()?; a position is
\* kept as its three quantized bytes q, standing for q * scale + origin
read_packed_position(buf, pos) ==
    Try(ReadU8(buf, pos), LAMBDA x :
    Try(ReadU8(buf, x.pos), LAMBDA y :
    Try(ReadU8(buf, y.pos), LAMBDA z :
        Done(z.pos, << x.val, y.val, z.val >>))))

\* read_packed_position(..)?; reader.read_u8()?;
ReadPackedAndPad_NoPad(buf, pos) == read_packed_position(buf, pos)

ReadPackedAndPad(buf, pos) ==
    Try(read_packed_position(buf, pos), LAMBDA v :
    Try(ReadU8(buf, v.pos), LAMBDA pad :
        Done(pad.pos, v.val)))

\* the size of Frame's name field: [0u8; 16]
FrameNameLen == 16

\* for _ in 0..num_verts { vertices.push(read_packed_position(..)?);
\*                         reader.read_u8()?; }
RECURSIVE FrameVertices_OffByOne(_, _, _, _)
FrameVertices_OffByOne(buf, pos, left, acc) ==
    IF left <= 1 THEN Done(pos, acc)
    ELSE Try(ReadPackedAndPad(buf, pos), LAMBDA v :
             FrameVertices_OffByOne(buf, v.pos, left - 1, Append(acc, v.val)))

RECURSIVE FrameVertices(_, _, _, _)
FrameVertices(buf, pos, left, acc) ==
    IF left <= 0 THEN Done(pos, acc)
    ELSE Try(ReadPackedAndPad(buf, pos), LAMBDA v :
             FrameVertices(buf, v.pos, left - 1, Append(acc, v.val)))

\* name_buf.iter().position(|b| *b == 0).unwrap(), then the lossy UTF-8 of
\* name_buf[..len] (the names of the model are ASCII)
FrameName(name_buf, pos) ==
    Bind(PositionOfNul(name_buf, 1), LAMBDA len :
        IF len = -1 THEN Fail("Panic", pos)
        ELSE Done(pos, SubSeq(name_buf, 1, len)))

Frame_deserialize(buf, pos, num_verts) ==
    Try(ReadPackedAndPad(buf, pos), LAMBDA min :
    Try(ReadPackedAndPad(buf, min.pos), LAMBDA max :
    Try(ReadExact(buf, max.pos, FrameNameLen), LAMBDA name_buf :
    Try(FrameName(name_buf.val, name_buf.pos), LAMBDA name :
        \* Vec::with_capacity(num_verts as usize)
        IF num_verts < 0 THEN Fail("Panic", name.pos)
        ELSE Try(FrameVertices(buf, name.pos, num_verts, << >>), LAMBDA vs :
                 Done(vs.pos, [name |-> name.val, min |-> min.val,
                               max |-> max.val, vertices |-> vs.val]))))))

\* for _ in 0..n { durations.push(from_micros(read_f32()? * 1e6)) }
RECURSIVE ReadDurations(_, _, _, _)
ReadDurations(buf, pos, left, acc) ==
    IF left <= 0 THEN Done(pos, acc)
    ELSE Try(ReadF32(buf, pos), LAMBDA d :
             ReadDurations(buf, d.pos, left - 1,
                           Append(acc, DurationOfF32(d.val))))

\* vec![0u8; size]; reader.read_exact(&mut indices)?
ReadSkinIndices(buf, pos, size) ==
    IF size < 0 THEN Fail("Panic", pos) ELSE ReadExact(buf, pos, size)

StaticSkin_deserialize(buf, pos, size) ==
    Try(ReadSkinIndices(buf, pos, size), LAMBDA r :
        Done(r.pos, [variant |-> "Static",
                     frames |-> << [duration |-> 0, indices |-> r.val] >>]))

\* for i in 0..num_skin_frames { read_exact; frames.push(..durations[i]..) }
RECURSIVE AnimatedSkinFrames(_, _, _, _, _)
AnimatedSkinFrames(buf, pos, size, durations, acc) ==
    IF Len(acc) >= Len(durations) THEN Done(pos, acc)
    ELSE Try(ReadSkinIndices(buf, pos, size), LAMBDA r :
             AnimatedSkinFrames(buf, r.pos, size, durations,
                 Append(acc, [duration |-> durations[Len(acc) + 1],
                              indices |-> r.val])))

AnimatedSkin_deserialize(buf, pos, size) ==
    Try(ReadF32(buf, pos), LAMBDA n :
    Try(ReadDurations(buf, n.pos, F32AsUsize(n.val), << >>), LAMBDA ds :
    Try(AnimatedSkinFrames(buf, ds.pos, size, ds.val, << >>), LAMBDA fs :
        Done(fs.pos, [variant |-> "Animated", frames |-> fs.val]))))

Skin_deserialize(buf, pos, size) ==
    Try(ReadI32(buf, pos), LAMBDA ty :
        IF ty.val = 0 THEN StaticSkin_deserialize(buf, ty.pos, size)
        ELSE IF ty.val = 1 THEN AnimatedSkin_deserialize(buf, ty.pos, size)
        ELSE Invalid("invalid skin type", ty.pos))

\* the tag of a SkinCoord that is on the seam: 0x20
OnSeamTag == 32

SkinCoord_deserialize(buf, pos) ==
    Try(ReadI32(buf, pos), LAMBDA tag :
    Try(ReadI32(buf, tag.pos), LAMBDA sc :
    Try(ReadI32(buf, sc.pos), LAMBDA tc :
        Done(tc.pos, [is_on_seam |-> (tag.val = OnSeamTag),
                      s |-> sc.val, t |-> tc.val]))))

\* indices[i] = reader.read_i32()? as u32, for i in 0..3; a negative i32
\* stands for the u32 2^32 + i
RECURSIVE TriangleIndices(_, _, _)
TriangleIndices(buf, pos, acc) ==
    IF Len(acc) >= 3 THEN Done(pos, acc)
    ELSE Try(ReadI32(buf, pos), LAMBDA r :
             TriangleIndices(buf, r.pos, Append(acc, r.val)))

Triangle_deserialize(buf, pos) ==
    Try(ReadI32(buf, pos), LAMBDA ff :
    Try(TriangleIndices(buf, ff.pos, << >>), LAMBDA ix :
        Done(ix.pos, [faces_front |-> (ff.val = 1), indices |-> ix.val])))

\* for i in 0..num_subframes { Frame::deserialize(..)?; subframes.push(..) }
RECURSIVE AnimatedKeyframeFrames(_, _, _, _, _)
AnimatedKeyframeFrames(buf, pos, num_verts, durations, acc) ==
    IF Len(acc) >= Len(durations) THEN Done(pos, acc)
    ELSE Try(Frame_deserialize(buf, pos, num_verts), LAMBDA r :
             AnimatedKeyframeFrames(buf, r.pos, num_verts, durations,
                 Append(acc, [duration |-> durations[Len(acc) + 1],
                              frame |-> r.val])))

AnimatedKeyframe_deserialize(buf, pos, num_verts) ==
    Try(ReadI32(buf, pos), LAMBDA n :
    Try(ReadPackedAndPad(buf, n.pos), LAMBDA min :
    Try(ReadPackedAndPad(buf, min.pos), LAMBDA max :
        \* Vec::with_capacity(num_subframes as usize)
        IF n.val < 0 THEN Fail("Panic", max.pos)
        ELSE
    Try(ReadDurations(buf, max.pos, n.val, << >>), LAMBDA ds :
    Try(AnimatedKeyframeFrames(buf, ds.pos, num_verts, ds.val, << >>),
        LAMBDA fs :
        Done(fs.pos, [variant |-> "Animated", min |-> min.val,
                      max |-> max.val, frames |-> fs.val]))))))

Keyframe_deserialize_DefaultStatic(buf, pos, num_verts) ==
    Try(ReadI32(buf, pos), LAMBDA ty :
        IF ty.val = 1
            THEN AnimatedKeyframe_deserialize(buf, ty.pos, num_verts)
        ELSE Try(Frame_deserialize(buf, ty.pos, num_verts), LAMBDA f :
                 Done(f.pos, [variant |-> "Static", min |-> f.val.min,
                              max |-> f.val.max,
                              frames |-> << [duration |-> 0,
                                             frame |-> f.val] >>])))

Keyframe_deserialize(buf, pos, num_verts) ==
    Try(ReadI32(buf, pos), LAMBDA ty :
        IF ty.val = 0
            THEN Try(Frame_deserialize(buf, ty.pos, num_verts), LAMBDA f :
                     Done(f.pos, [variant |-> "Static", min |-> f.val.min,
                                  max |-> f.val.max,
                                  frames |-> << [duration |-> 0,
                                                 frame |-> f.val] >>]))
        ELSE IF ty.val = 1
            THEN AnimatedKeyframe_deserialize(buf, ty.pos, num_verts)
        ELSE Invalid("invalid frame type", ty.pos))

(***************************************************************************)
(* Mdl::deserialize.                                                       *)
(***************************************************************************)
\* the signature "IDPO": 0x4f504449
MdlIdent == 1330660425
\* the one version the decoder accepts
MdlVersion == 6

\* for _ in 0..num_skins { skins.push(Skin::deserialize(reader, size)?) }
RECURSIVE ReadSkins(_, _, _, _, _)
ReadSkins(buf, pos, left, size, acc) ==
    IF left <= 0 THEN Done(pos, acc)
    ELSE Try(Skin_deserialize(buf, pos, size), LAMBDA r :
             ReadSkins(buf, r.pos, left - 1, size, Append(acc, r.val)))

\* for _ in 0..num_verts { skin_coords.push(SkinCoord::deserialize(reader)?) }
RECURSIVE ReadSkinCoords(_, _, _, _)
ReadSkinCoords(buf, pos, left, acc) ==
    IF left <= 0 THEN Done(pos, acc)
    ELSE Try(SkinCoord_deserialize(buf, pos), LAMBDA r :
             ReadSkinCoords(buf, r.pos, left - 1, Append(acc, r.val)))

\* for _ in 0..num_tris { triangles.push(Triangle::deserialize(reader)?) }
RECURSIVE ReadTriangles(_, _, _, _)
ReadTriangles(buf, pos, left, acc) ==
    IF left <= 0 THEN Done(pos, acc)
    ELSE Try(Triangle_deserialize(buf, pos), LAMBDA r :
             ReadTriangles(buf, r.pos, left - 1, Append(acc, r.val)))

\* for _ in 0..num_frames { keyframes.push(Keyframe::deserialize(..)?) }
RECURSIVE ReadKeyframes(_, _, _, _, _)
ReadKeyframes(buf, pos, left, num_verts, acc) ==
    IF left <= 0 THEN Done(pos, acc)
    ELSE Try(Keyframe_deserialize(buf, pos, num_verts), LAMBDA r :
             ReadKeyframes(buf, r.pos, left - 1, num_verts,
                           Append(acc, r.val)))

\* n times reader.read_i32::<LittleEndian>().unwrap()
RECURSIVE ReadI32sUnwrapped(_, _, _, _)
ReadI32sUnwrapped(buf, pos, left, acc) ==
    IF left <= 0 THEN Done(pos, acc)
    ELSE Try(Unwrap(ReadI32(buf, pos)), LAMBDA r :
             ReadI32sUnwrapped(buf, r.pos, left - 1, Append(acc, r.val)))

\* lines 93-112: scale, origin, bounding_radius, position (ten f32), the
\* eight i32 num_skins .. flags, and size (f32), every read unwrapped
MdlHeaderFields(buf, pos) ==
    Try(Unwrap(ReadExact(buf, pos, 12)), LAMBDA scale :
    Try(Unwrap(ReadExact(buf, scale.pos, 12)), LAMBDA origin :
    Try(Unwrap(ReadF32(buf, origin.pos)), LAMBDA bounding_radius :
    Try(Unwrap(ReadExact(buf, bounding_radius.pos, 12)), LAMBDA position :
    Try(ReadI32sUnwrapped(buf, position.pos, 8, << >>), LAMBDA ints :
    Try(Unwrap(ReadF32(buf, ints.pos)), LAMBDA size :
        Done(size.pos,
             [num_skins |-> ints.val[1], skin_width |-> ints.val[2],
              skin_height |-> ints.val[3], num_verts |-> ints.val[4],
              num_tris |-> ints.val[5], num_frames |-> ints.val[6]])))))))

\* lines 134-166: the four record lists, then the Mdl; each
\* Vec::with_capacity(n as usize) panics for a negative n
MdlBody(buf, pos, h) ==
    IF h.num_skins < 0 THEN Fail("Panic", pos)
    ELSE
    Try(ReadSkins(buf, pos, h.num_skins, h.skin_width * h.skin_height, << >>),
        LAMBDA skins :
        IF h.num_verts < 0 THEN Fail("Panic", skins.pos)
        ELSE
    Try(ReadSkinCoords(buf, skins.pos, h.num_verts, << >>),
        LAMBDA skin_coords :
        IF h.num_tris < 0 THEN Fail("Panic", skin_coords.pos)
        ELSE
    Try(ReadTriangles(buf, skin_coords.pos, h.num_tris, << >>),
        LAMBDA triangles :
        IF h.num_frames < 0 THEN Fail("Panic", triangles.pos)
        ELSE
    Try(ReadKeyframes(buf, triangles.pos, h.num_frames, h.num_verts, << >>),
        LAMBDA keyframes :
        Done(keyframes.pos,
             [skins |-> skins.val,
              skin_width |-> h.skin_width,
              skin_height |-> h.skin_height,
              skin_coords |-> skin_coords.val,
              num_verts |-> h.num_verts,
              triangles |-> triangles.val,
              keyframes |-> keyframes.val])))))

Mdl_deserialize_NoSignatureCheck(buf) ==
    Try(Unwrap(ReadI32(buf, 0)), LAMBDA ident :
    Try(Unwrap(ReadI32(buf, ident.pos)), LAMBDA version :
        IF version.val # MdlVersion THEN Invalid("invalid version", version.pos)
        ELSE
    Try(MdlHeaderFields(buf, version.pos), LAMBDA h :
        MdlBody(buf, h.pos, h.val))))

Mdl_deserialize(buf) ==
    Try(Unwrap(ReadI32(buf, 0)), LAMBDA ident :
        IF ident.val # MdlIdent THEN Invalid("invalid signature", ident.pos)
        ELSE
    Try(Unwrap(ReadI32(buf, ident.pos)), LAMBDA version :
        IF version.val # MdlVersion THEN Invalid("invalid version", version.pos)
        ELSE
    Try(MdlHeaderFields(buf, version.pos), LAMBDA h :
        MdlBody(buf, h.pos, h.val))))

(***************************************************************************)
(* The model buffers: the MDL layout Mdl::deserialize reads.               *)
(***************************************************************************)
\* the largest number of skins, of triangles and of keyframes of a model
MaxCount == 1
\* the largest number of timed entries of an animated skin or keyframe
MaxSub == 1
\* the number of vertices of a model that has any
MaxVerts == 3

\* skin_width and skin_height of the models
SkinWidth == 2
SkinHeight == 1

RECURSIVE Concat(_)
Concat(seqs) ==
    IF seqs = << >> THEN << >> ELSE Head(seqs) \o Concat(Tail(seqs))

SkinImage(i) == [k \in 1 .. (SkinWidth * SkinHeight) |-> IF k = 1 THEN i ELSE 255]

SkinBytes(kind, sub, i) ==
    IF kind = "Static" THEN I32ToLeBytes(0) \o SkinImage(i)
    ELSE I32ToLeBytes(1) \o F32OfSmall(sub)
         \o Concat([k \in 1 .. sub |-> IF k % 2 = 1 THEN F32Tenth ELSE F32Fifth])
         \o Concat([k \in 1 .. sub |-> SkinImage(i + k)])

SkinCoordBytes(i) ==
    I32ToLeBytes(IF i = 1 THEN OnSeamTag ELSE 0)
        \o I32ToLeBytes(i) \o I32ToLeBytes(i + 1)

TriangleBytes(j) ==
    I32ToLeBytes(j % 2) \o I32ToLeBytes(0) \o I32ToLeBytes(1) \o I32ToLeBytes(2)

\* "run" and a digit, NUL-padded to 16 bytes
FrameNameBytes(i) == << 114, 117, 110, 48 + i >> \o Zeros(FrameNameLen - 4)

FrameBytes(num_verts, i) ==
    << 0, 0, 0, 0 >> \o << 255, 255, 255, 0 >> \o FrameNameBytes(i)
        \o Concat([v \in 1 .. num_verts |-> << v, v + 10 * i, v + 20, 9 >>])

KeyframeBytes(kind, sub, num_verts, i) ==
    IF kind = "Static" THEN I32ToLeBytes(0) \o FrameBytes(num_verts, i)
    ELSE I32ToLeBytes(1) \o I32ToLeBytes(sub)
         \o << 0, 0, 0, 0 >> \o << 255, 255, 255, 0 >>
         \o Concat([k \in 1 .. sub |-> IF k % 2 = 1 THEN F32Tenth ELSE F32Fifth])
         \o Concat([k \in 1 .. sub |-> FrameBytes(num_verts, i + k)])

MdlHeaderBytes(d) ==
    I32ToLeBytes(MdlIdent) \o I32ToLeBytes(MdlVersion)
        \o Concat([k \in 1 .. 3 |-> F32OfSmall(1)])
        \o Concat([k \in 1 .. 3 |-> F32OfSmall(0)])
        \o F32OfSmall(1)
        \o Concat([k \in 1 .. 3 |-> F32OfSmall(0)])
        \o I32ToLeBytes(d.num_skins) \o I32ToLeBytes(SkinWidth)
        \o I32ToLeBytes(SkinHeight) \o I32ToLeBytes(d.num_verts)
        \o I32ToLeBytes(d.num_tris) \o I32ToLeBytes(d.num_frames)
        \o I32ToLeBytes(0) \o I32ToLeBytes(0)
        \o F32OfSmall(1)

\* the complete buffer of the model d describes
MdlBytes(d) ==
    MdlHeaderBytes(d)
        \o Concat([i \in 1 .. d.num_skins |-> SkinBytes(d.skin_kind, d.skin_sub, i)])
        \o Concat([i \in 1 .. d.num_verts |-> SkinCoordBytes(i)])
        \o Concat([j \in 1 .. d.num_tris |-> TriangleBytes(j)])
        \o Concat([i \in 1 .. d.num_frames |->
                      KeyframeBytes(d.frame_kind, d.frame_sub, d.num_verts, i)])

\* a list of records of one kind: their number, and whether they are all
\* Static or all Animated with the same number of timed entries (none, or
\* MaxSub)
RecordListChoices ==
    UNION { { [n |-> n, kind |-> k.kind, sub |-> k.sub] :
                k \in IF n = 0
                         THEN { [kind |-> "Static", sub |-> 0] }
                         ELSE { [kind |-> "Static", sub |-> 0] }
                              \cup { [kind |-> "Animated", sub |-> j] :
                                       j \in {0, MaxSub} } } :
            n \in 0 .. MaxCount }

MdlChoices ==
    { [num_skins |-> sk.n, skin_kind |-> sk.kind, skin_sub |-> sk.sub,
       num_verts |-> nv, num_tris |-> nt,
       num_frames |-> fk.n, frame_kind |-> fk.kind, frame_sub |-> fk.sub] :
        sk \in RecordListChoices, nv \in {0, MaxVerts}, nt \in {0, MaxCount},
        fk \in RecordListChoices }

\* a model buffer, complete or cut short at any byte
InitMdl ==
    /\ mdlDesc \in MdlChoices
    /\ \E cut \in 0 .. Len(MdlBytes(mdlDesc)) :
          mdlBuf = SubSeq(MdlBytes(mdlDesc), 1, cut)
    /\ mdlOut = [st |-> "None", pos |-> 0, val |-> << >>]
    /\ PakIdle
    /\ SelIdle
    /\ MeshIdle
    /\ AnimIdle
    /\ ResIdle
    /\ HidIdle

\* Mdl::load, line 30: Mdl::deserialize(&mut Cursor::new(bytes))
Deserialize ==
    /\ mdlOut.st = "None"
    /\ mdlOut' = Mdl_deserialize(mdlBuf)
    /\ UNCHANGED << mdlDesc, mdlBuf >>
    /\ UNCHANGED nonMdlVars

NextMdl == Deserialize

SpecMdl == InitMdl /\ [][NextMdl]_vars

\* the buffer is the whole model
Complete == Len(mdlBuf) = Len(MdlBytes(mdlDesc))

\* C10: decoding a buffer that ends before the model is complete returns an
\* error value and never panics.
C10_TruncatedIsError ==
    (mdlOut.st # "None" /\ ~Complete) => mdlOut.st = "Err"

\* a buffer cut after the 84-byte header is refused with an error value, and a
\* complete buffer decodes
MdlSane ==
    /\ (mdlOut.st # "None" /\ ~Complete /\ Len(mdlBuf) >= 84) => mdlOut.st = "Err"
    /\ (mdlOut.st # "None" /\ Complete) =>
          /\ mdlOut.st = "Ok"
          /\ mdlOut.pos = Len(mdlBuf)
          /\ Len(mdlOut.val.skins) = mdlDesc.num_skins
          /\ Len(mdlOut.val.keyframes) = mdlDesc.num_frames

(***************************************************************************)
(* The draw contracts of a decoded model: Mdl::indices and Mdl::vertices.  *)
(***************************************************************************)
\* Mdl::indices: every triangle's [u32; 3] appended in turn
Mdl_indices_PerTriangleOnce(self) ==
    Concat([k \in 1 .. Len(self.triangles) |->
               << self.triangles[k].indices[1] >>])

Mdl_indices(self) ==
    Concat([k \in 1 .. Len(self.triangles) |-> self.triangles[k].indices])

\* line 50: !triangle.faces_front && skin_coord.is_on_seam
SeamCorrectionOnSeamOnly(triangle, skin_coord) == skin_coord.is_on_seam

SeamCorrection(triangle, skin_coord) ==
    ~triangle.faces_front /\ skin_coord.is_on_seam

\* lines 50-55: s = (s + [skin_width / 2.0] + 0.5) / skin_width and
\* t = (t + 0.5) / skin_height.  The f32 sums are exact for the small values
\* of the model; a quotient is kept as the fraction num / den of the doubled
\* operands, so that the halves stay integers.
TexCoord(self, triangle, skin_coord) ==
    << [num |-> 2 * skin_coord.s
                + (IF SeamCorrection(triangle, skin_coord)
                      THEN self.skin_width ELSE 0)
                + 1,
        den |-> 2 * self.skin_width],
       [num |-> 2 * skin_coord.t + 1, den |-> 2 * self.skin_height] >>

\* lines 46-57, one corner: frame.vertices[index as usize] and
\* self.skin_coords[index as usize] are bounds-checked; an index that is
\* negative as an i32 is a u32 of 2^31 or more
Corner(self, frame, triangle, i) ==
    LET index == triangle.indices[i]
    IN  IF index < 0 \/ index >= Len(frame.vertices) THEN Fail("Panic", 0)
        ELSE IF index >= Len(self.skin_coords) THEN Fail("Panic", 0)
        ELSE Done(0, [position |-> frame.vertices[index + 1],
                      texcoord |-> TexCoord(self, triangle,
                                            self.skin_coords[index + 1])])

\* Vector3 subtraction and cross product
VecSub(a, b) == << a[1] - b[1], a[2] - b[2], a[3] - b[3] >>
VecCross(a, b) ==
    << a[2] * b[3] - a[3] * b[2],
       a[3] * b[1] - a[1] * b[3],
       a[1] * b[2] - a[2] * b[1] >>

\* lines 59-63: cross(face[0] - face[1], face[2] - face[1]).normalize(); the
\* normal is kept as the cross product, whose direction normalize() keeps
FaceNormal(face) ==
    VecCross(VecSub(face[1], face[2]), VecSub(face[3], face[2]))

\* lines 44-71, one triangle: its three corners, then three pushes
TriangleVertices(self, frame, triangle) ==
    Try(Corner(self, frame, triangle, 1), LAMBDA c1 :
    Try(Corner(self, frame, triangle, 2), LAMBDA c2 :
    Try(Corner(self, frame, triangle, 3), LAMBDA c3 :
        Bind(FaceNormal(<< c1.val.position, c2.val.position,
                           c3.val.position >>), LAMBDA normal :
            Done(0, [i \in 1 .. 3 |->
                        [position |-> << c1, c2, c3 >>[i].val.position,
                         normal |-> normal,
                         texcoord |-> << c1, c2, c3 >>[i].val.texcoord]])))))

\* for triangle in self.triangles.iter() { .. }
RECURSIVE VerticesLoop(_, _, _, _)
VerticesLoop(self, frame, k, acc) ==
    IF k > Len(self.triangles) THEN Done(0, acc)
    ELSE Try(TriangleVertices(self, frame, self.triangles[k]), LAMBDA r :
             VerticesLoop(self, frame, k + 1, acc \o r.val))

Mdl_vertices(self, frame) == VerticesLoop(self, frame, 1, << >>)

(***************************************************************************)
(* Model buffers for the draw contracts: complete buffers, written from a  *)
(* description d = [sig, version, tail, skins, num_verts, tris, frames].   *)
(***************************************************************************)
\* the largest number of triangles of a model
MaxTris == 2
\* the largest number of keyframes of a model
MaxKeys == 2

\* a skin record with any leading tag: 1 is Animated, every other tag is
\* followed by one image
TaggedSkinBytes(r, i) ==
    IF r.tag = 1 THEN SkinBytes("Animated", r.sub, i)
    ELSE I32ToLeBytes(r.tag) \o SkinImage(i)

\* a keyframe record with any leading tag: 1 is Animated, every other tag is
\* followed by one Frame
TaggedKeyframeBytes(r, num_verts, i) ==
    IF r.tag = 1 THEN KeyframeBytes("Animated", r.sub, num_verts, i)
    ELSE I32ToLeBytes(r.tag) \o FrameBytes(num_verts, i)

\* a triangle record: faces_front, then the three indices
TriBytes(t) ==
    I32ToLeBytes(t.ff) \o I32ToLeBytes(t.idx[1]) \o I32ToLeBytes(t.idx[2])
        \o I32ToLeBytes(t.idx[3])

\* the counts of d, as MdlHeaderBytes takes them
MeshCounts(d) ==
    [num_skins |-> Len(d.skins), num_verts |-> d.num_verts,
     num_tris |-> Len(d.tris), num_frames |-> Len(d.frames)]

\* the 84-byte header with the signature and the version of d
MeshHeaderBytes(d) ==
    I32ToLeBytes(d.sig) \o I32ToLeBytes(d.version)
        \o SubSeq(MdlHeaderBytes(MeshCounts(d)), 9, 84)

\* the bytes of the first ns skins of d and of the first nf keyframes
MeshSkinsBytes(d, ns) ==
    Concat([i \in 1 .. ns |-> TaggedSkinBytes(d.skins[i], i)])
MeshFramesBytes(d, nf) ==
    Concat([i \in 1 .. nf |-> TaggedKeyframeBytes(d.frames[i], d.num_verts, i)])

\* the buffer up to the first ns skins, and up to the first nf keyframes
MeshBytesToSkin(d, ns) == MeshHeaderBytes(d) \o MeshSkinsBytes(d, ns)
MeshBytesToFrame(d, nf) ==
    MeshBytesToSkin(d, Len(d.skins))
        \o Concat([i \in 1 .. d.num_verts |-> SkinCoordBytes(i)])
        \o Concat([j \in 1 .. Len(d.tris) |-> TriBytes(d.tris[j])])
        \o MeshFramesBytes(d, nf)

\* the buffer of d: the whole model, or nothing but the four signature bytes
MeshBytes(d) ==
    IF d.tail = "none" THEN I32ToLeBytes(d.sig)
    ELSE MeshBytesToFrame(d, Len(d.frames))

StaticRecord == [tag |-> 0, sub |-> 0]
AnimatedRecord(n) == [tag |-> 1, sub |-> n]
BadRecord(tag) == [tag |-> tag, sub |-> 0]

\* triangles: front- and back-facing over the first three vertices, one with
\* a faces_front tag of 2, one with an index one past the last vertex, one
\* with a negative index
TriChoices ==
    { [ff |-> f, idx |-> ix] : f \in {0, 1}, ix \in { << 0, 1, 2 >>, << 2, 0, 1 >> } }
        \cup { [ff |-> 2, idx |-> << 0, 1, 2 >>],
               [ff |-> 0, idx |-> << 0, 2, MaxVerts >>],
               [ff |-> 1, idx |-> << 0, 1, -1 >>] }

TriLists == UNION { [1 .. n -> TriChoices] : n \in 0 .. MaxTris }

\* keyframe lists whose tags are all known
FrameLists ==
    UNION { [1 .. n -> {StaticRecord, AnimatedRecord(MaxSub)}] : n \in 0 .. MaxKeys }

\* skin lists and keyframe lists with an unknown tag or an empty animation
SkinListsOdd ==
    { << >>, << StaticRecord >>, << AnimatedRecord(MaxSub) >>,
      << AnimatedRecord(0) >>, << StaticRecord, AnimatedRecord(MaxSub) >>,
      << BadRecord(2) >>, << StaticRecord, BadRecord(-1) >>,
      << BadRecord(2), StaticRecord >>, << AnimatedRecord(MaxSub), BadRecord(256) >> }
FrameListsOdd ==
    { << StaticRecord >>, << BadRecord(2) >>, << StaticRecord, BadRecord(2) >>,
      << BadRecord(-1), StaticRecord >>, << AnimatedRecord(0) >>,
      << AnimatedRecord(MaxSub), BadRecord(256) >> }

MeshBase ==
    [sig |-> MdlIdent, version |-> MdlVersion, tail |-> "full",
     skins |-> << StaticRecord >>, num_verts |-> MaxVerts,
     tris |-> << [ff |-> 1, idx |-> << 0, 1, 2 >>] >>,
     frames |-> << StaticRecord >>]

\* signatures that differ from "IDPO" in the low byte, in the high byte, in
\* every byte
BadSignatures == { MdlIdent + 1, MdlIdent - 16777216, 0 }

MeshChoices ==
    { [MeshBase EXCEPT !.tris = ts, !.frames = fs] :
        ts \in TriLists, fs \in FrameLists }
    \cup { [MeshBase EXCEPT !.skins = ss, !.frames = fs, !.num_verts = nv] :
             ss \in SkinListsOdd, fs \in FrameListsOdd, nv \in {-1, 0, MaxVerts} }
    \cup { [MeshBase EXCEPT !.sig = sg, !.tail = tl] :
             sg \in BadSignatures, tl \in {"none", "full"} }
    \cup { [MeshBase EXCEPT !.version = 7] }

InitMesh ==
    /\ mdlDesc \in MeshChoices
    /\ mdlBuf = MeshBytes(mdlDesc)
    /\ mdlOut = [st |-> "None", pos |-> 0, val |-> << >>]
    /\ MeshIdle
    /\ PakIdle
    /\ SelIdle
    /\ AnimIdle
    /\ ResIdle
    /\ HidIdle

\* every Frame of the model: a static keyframe's, an animated one's subframes
FramesOf(self) ==
    UNION { { self.keyframes[k].frames[j].frame :
                j \in 1 .. Len(self.keyframes[k].frames) } :
            k \in 1 .. Len(self.keyframes) }

\* the frames scene assembly can pass to Mdl::vertices: those of the model
DecodedFrames == IF mdlOut.st = "Ok" THEN FramesOf(mdlOut.val) ELSE {}

\* mdl.indices() on the decoded model
Indices ==
    /\ mdlOut.st = "Ok"
    /\ meshIdx.st = "None"
    /\ meshIdx' = [st |-> "Ok", val |-> Mdl_indices(mdlOut.val)]
    /\ UNCHANGED << meshFrame, meshVtx >>
    /\ UNCHANGED nonMeshVars

\* mdl.vertices(&frame) on the decoded model, for one of its frames
Vertices(frame) ==
    /\ mdlOut.st = "Ok"
    /\ meshVtx.st = "None"
    /\ meshFrame' = frame
    /\ meshVtx' = Bind(Mdl_vertices(mdlOut.val, frame), LAMBDA r :
                       [st |-> r.st, val |-> r.val])
    /\ UNCHANGED meshIdx
    /\ UNCHANGED nonMeshVars

NextMesh ==
    \/ Deserialize
    \/ Indices
    \/ \E frame \in DecodedFrames : Vertices(frame)

SpecMesh == InitMesh /\ [][NextMesh]_vars

(***************************************************************************)
(* Claims about the decoder's refusals and the decoded model.              *)
(***************************************************************************)
\* the buffer holds at least the signature field and it is not "IDPO"
BadSignature ==
    /\ Len(mdlBuf) >= 4
    /\ I32FromLeBytes(SubSeq(mdlBuf, 1, 4)) # MdlIdent

\* C11: decoding a buffer whose first 4 bytes are not the expected signature
\* fails with the invalid-signature error, never panics, and leaves the
\* cursor right after the signature field.
C11_BadSignatureIsError ==
    (mdlOut.st # "None" /\ BadSignature) =>
        mdlOut = Invalid("invalid signature", 4)

C11_Witness ==
    /\ mdlOut.st # "None"
    /\ BadSignature
    /\ Len(mdlBuf) > 84

\* the 1-based position of the first record of rs with an unknown tag, or 0
FirstBad(rs) ==
    IF \E k \in 1 .. Len(rs) : rs[k].tag \notin {0, 1}
        THEN CHOOSE k \in 1 .. Len(rs) :
                 /\ rs[k].tag \notin {0, 1}
                 /\ \A j \in 1 .. (k - 1) : rs[j].tag \in {0, 1}
        ELSE 0

\* the header is accepted and the whole buffer is there
HeaderAccepted ==
    /\ mdlDesc.sig = MdlIdent
    /\ mdlDesc.version = MdlVersion
    /\ mdlDesc.tail = "full"

\* the decoder reaches a keyframe record with an unknown tag
ReachesBadFrame ==
    /\ HeaderAccepted
    /\ FirstBad(mdlDesc.skins) = 0
    /\ mdlDesc.num_verts >= 0
    /\ FirstBad(mdlDesc.frames) # 0

\* C12: a skin or keyframe record whose tag is neither 0 nor 1 makes the
\* decode fail with the invalid-type error of its kind; no model is
\* returned and the cursor stays right after the tag, so that no later
\* record is read.
C12_UnknownTagIsError ==
    mdlOut.st # "None" =>
        /\ (HeaderAccepted /\ FirstBad(mdlDesc.skins) # 0) =>
              mdlOut = Invalid("invalid skin type",
                  Len(MeshBytesToSkin(mdlDesc, FirstBad(mdlDesc.skins) - 1)) + 4)
        /\ ReachesBadFrame =>
              mdlOut = Invalid("invalid frame type",
                  Len(MeshBytesToFrame(mdlDesc, FirstBad(mdlDesc.frames) - 1)) + 4)

C12_Witness ==
    /\ mdlOut.st # "None"
    /\ ReachesBadFrame
    /\ FirstBad(mdlDesc.frames) = 2
    /\ Len(mdlDesc.skins) >= 1

\* C13: in a successfully decoded model every Frame, a static keyframe's
\* and every subframe of an animated one, has Mdl.num_verts vertices.
C13_FramesHaveNumVerts ==
    mdlOut.st = "Ok" =>
        \A f \in FramesOf(mdlOut.val) : Len(f.vertices) = mdlOut.val.num_verts

C13_Witness ==
    /\ mdlOut.st = "Ok"
    /\ mdlOut.val.num_verts = MaxVerts
    /\ \E k \in 1 .. Len(mdlOut.val.keyframes) :
          mdlOut.val.keyframes[k].variant = "Static"
    /\ \E k \in 1 .. Len(mdlOut.val.keyframes) :
          /\ mdlOut.val.keyframes[k].variant = "Animated"
          /\ Len(mdlOut.val.keyframes[k].frames) = MaxSub

\* C14: in a successfully decoded model every Animated skin and every
\* Animated keyframe holds at least one timed entry.
C14_AnimatedListsNonEmpty ==
    mdlOut.st = "Ok" =>
        /\ \A k \in 1 .. Len(mdlOut.val.skins) :
              mdlOut.val.skins[k].variant = "Animated" =>
                  Len(mdlOut.val.skins[k].frames) >= 1
        /\ \A k \in 1 .. Len(mdlOut.val.keyframes) :
              mdlOut.val.keyframes[k].variant = "Animated" =>
                  Len(mdlOut.val.keyframes[k].frames) >= 1

(***************************************************************************)
(* Claims about the draw contracts.                                        *)
(***************************************************************************)
\* the triangles the buffer was written with, in file order
WrittenTris == mdlDesc.tris

\* C15: indices() is the flat list of the triangles' index triples, in
\* triangle order: 3 entries per triangle, entry 3k+i being corner i of
\* triangle k; one triangle 0,1,2 gives [0,1,2].
C15_IndicesFlattenTriangles ==
    meshIdx.st = "Ok" =>
        /\ Len(meshIdx.val) = 3 * Len(WrittenTris)
        /\ \A k \in 1 .. Len(WrittenTris) : \A i \in 1 .. 3 :
              meshIdx.val[3 * (k - 1) + i] = WrittenTris[k].idx[i]
        /\ (Len(WrittenTris) = 1 /\ WrittenTris[1].idx = << 0, 1, 2 >>) =>
              meshIdx.val = << 0, 1, 2 >>

C15_Witness ==
    /\ meshIdx.st = "Ok"
    /\ Len(WrittenTris) = 2
    /\ WrittenTris[1].idx = << 2, 0, 1 >>
    /\ WrittenTris[2].idx = << 0, 1, 2 >>

\* C16: vertices(frame) returns 3 output vertices per triangle, in triangle
\* order, output vertex 3k+i having the frame's position at corner index i
\* of triangle k.
C16_VerticesPerCorner ==
    meshVtx.st # "None" =>
        /\ meshVtx.st = "Ok"
        /\ Len(meshVtx.val) = 3 * Len(WrittenTris)
        /\ \A k \in 1 .. Len(WrittenTris) : \A i \in 1 .. 3 :
              meshVtx.val[3 * (k - 1) + i].position
                  = meshFrame.vertices[WrittenTris[k].idx[i] + 1]

\* every corner index of the written triangles is a vertex of the model
IndicesInRange ==
    \A k \in 1 .. Len(WrittenTris) : \A i \in 1 .. 3 :
        WrittenTris[k].idx[i] \in 0 .. (mdlDesc.num_verts - 1)

\* vertices(frame) of a model whose indices are all in range: the positions
\* of the claim
VerticesInRangeSane ==
    (meshVtx.st # "None" /\ IndicesInRange) =>
        /\ meshVtx.st = "Ok"
        /\ Len(meshVtx.val) = 3 * Len(WrittenTris)
        /\ \A k \in 1 .. Len(WrittenTris) : \A i \in 1 .. 3 :
              meshVtx.val[3 * (k - 1) + i].position
                  = meshFrame.vertices[WrittenTris[k].idx[i] + 1]

\* the buffers mark vertex index 0, and no other, as on the seam, and give
\* vertex index v the texel s = v + 1; a triangle faces front when its tag
\* is 1
WrittenOnSeam(v) == v = 0
WrittenS(v) == v + 1
WrittenFacesFront(k) == WrittenTris[k].ff = 1

\* C17: the skin_width / 2 offset is in a corner's s exactly when the
\* corner's vertex is on the seam and its triangle does not face front.
C17_SeamOffsetOnlyBackFacing ==
    meshVtx.st = "Ok" =>
        \A k \in 1 .. Len(WrittenTris) : \A i \in 1 .. 3 :
            LET v == WrittenTris[k].idx[i]
                out == meshVtx.val[3 * (k - 1) + i].texcoord[1]
                offset == IF WrittenOnSeam(v) /\ ~WrittenFacesFront(k)
                             THEN SkinWidth ELSE 0
            IN  /\ out.den = 2 * SkinWidth
                /\ out.num = 2 * WrittenS(v) + offset + 1

\* the on-seam vertex is a corner of a front-facing and of a back-facing
\* triangle of one model
C17_Witness ==
    /\ meshVtx.st = "Ok"
    /\ \E k \in 1 .. Len(WrittenTris) :
          WrittenFacesFront(k) /\ \E i \in 1 .. 3 : WrittenTris[k].idx[i] = 0
    /\ \E k \in 1 .. Len(WrittenTris) :
          ~WrittenFacesFront(k) /\ \E i \in 1 .. 3 : WrittenTris[k].idx[i] = 0

(***************************************************************************)
(* The animation library: animation.rs.                                    *)
(*                                                                         *)
(* A Keyframe is [vertices, duration], the duration in microseconds; an    *)
(* Animation is the sequence of its keyframes; the library maps a clip     *)
(* name to its Animation.  What animate returns is [kind, clip, prev,      *)
(* next, vertices]: kind "None", "Some" or "Panic"; prev and next are the  *)
(* 1-based positions of the keyframes find_keyframes returned.             *)
(***************************************************************************)
\* the largest number of keyframes add_keyframe puts into one Animation
MaxClip == 3

\* Animation::find_keyframes, lines 58-68: the scan from keyframe i on, prev
\* being the last keyframe taken so far; next stays keyframes[0] when the
\* loop ends without a break
RECURSIVE FindLoop(_, _, _, _)
FindLoop(keyframes, time, i, prev) ==
    IF i > Len(keyframes) THEN << prev, 1 >>
    ELSE IF AsMillis(keyframes[i].duration) <= AsMillis(time)
        THEN FindLoop(keyframes, time, i + 1, i)
    ELSE << prev, i >>

\* the scan without its break: the last keyframe on either side of time
find_keyframes_NoBreak(keyframes, time) ==
    LET le == { i \in 1 .. Len(keyframes) :
                  AsMillis(keyframes[i].duration) <= AsMillis(time) }
        gt == (1 .. Len(keyframes)) \ le
        Last(S) == IF S = {} THEN 1 ELSE CHOOSE i \in S : \A j \in S : j <= i
    IN  << Last(le), Last(gt) >>

find_keyframes(keyframes, time) == FindLoop(keyframes, time, 1, 1)

\* Animation::interpolate, lines 83-89: the u128 quotient
\* (time - prev) / (next - prev) in milliseconds, then vec![].  With overflow
\* checks a subtraction below 0 panics; without them it wraps, and the
\* divisor is 0 exactly when the two durations have the same milliseconds;
\* a division by 0 panics in every build.
interpolate(prev_keyframe, next_keyframe, time, b) ==
    LET t == AsMillis(time)
        p == AsMillis(prev_keyframe.duration)
        n == AsMillis(next_keyframe.duration)
    IN  IF b = "debug" /\ (t < p \/ n < p) THEN "Panic"
        ELSE IF n = p THEN "Panic"
        ELSE "Some"

\* Animation::animate, lines 40-52
Animation_animate(keyframes, clip, time, b) ==
    IF keyframes = << >>
        THEN [kind |-> "None", clip |-> clip, prev |-> 0, next |-> 0,
              vertices |-> << >>]
    ELSE Bind(find_keyframes(keyframes, time), LAMBDA pair :
             [kind |-> interpolate(keyframes[pair[1]], keyframes[pair[2]],
                                   time, b),
              clip |-> clip, prev |-> pair[1], next |-> pair[2],
              vertices |-> << >>])

\* KeyframeAnimationComponent::animate, lines 18-21
Component_animate_AnyClip(lib, current, time, b) ==
    IF current = << >> /\ DOMAIN lib = {}
        THEN [kind |-> "None", clip |-> current, prev |-> 0, next |-> 0,
              vertices |-> << >>]
    ELSE IF current = << >>
        THEN Animation_animate(lib[CHOOSE k \in DOMAIN lib : TRUE], current,
                               time, b)
    ELSE IF current[1] \notin DOMAIN lib
        THEN [kind |-> "None", clip |-> current, prev |-> 0, next |-> 0,
              vertices |-> << >>]
    ELSE Animation_animate(lib[current[1]], current, time, b)

Component_animate(lib, current, time, b) ==
    IF current = << >>
        THEN [kind |-> "None", clip |-> current, prev |-> 0, next |-> 0,
              vertices |-> << >>]
    ELSE IF current[1] \notin DOMAIN lib
        THEN [kind |-> "None", clip |-> current, prev |-> 0, next |-> 0,
              vertices |-> << >>]
    ELSE Animation_animate(lib[current[1]], current, time, b)

\* the vertex snapshot of the i-th keyframe handed to add_keyframe: the
\* positions of the three corners of one triangle, different for every i
Snapshot(i) == << << i, 0, 0 >>, << i, 1, 0 >>, << i, 0, 1 >> >>

\* Animation::add_keyframe, lines 35-38
add_keyframe(keyframes, vertices, duration) ==
    Append(keyframes, [vertices |-> vertices, duration |-> duration])

\* what a call of animate leaves in animOut: its result r, with the number
\* of clips of the library and of keyframes of the selected clip at the call
CallRecord(r, lib) ==
    [kind |-> r.kind, clip |-> r.clip, prev |-> r.prev, next |-> r.next,
     vertices |-> r.vertices,
     clips |-> Cardinality(DOMAIN lib),
     len |-> IF r.clip # << >> /\ r.clip[1] \in DOMAIN lib
                THEN Len(lib[r.clip[1]]) ELSE 0]

\* the times animate is called with, in microseconds
AnimateTimes == {0, 50000, 100000, 150000, 200999, 350000}

\* animate(&self, time), by whoever holds the component: the scene's update
\* (scene.rs line 35) or any other holder of the entity
Animate(time) ==
    /\ scenePc \in {"loop", "animate", "done", "api"}
    /\ animTime' = time
    /\ animOut' = CallRecord(Component_animate(animations, current_animation,
                                                time, build), animations)
    /\ UNCHANGED << sceneMdl, animations, current_animation, scenePc, sceneIdx >>
    /\ UNCHANGED nonAnimVars

(***************************************************************************)
(* Scene::create_alias_entity, lines 64-96: the library of a model.        *)
(***************************************************************************)
\* char::is_alphabetic for the ASCII bytes of a frame name
IsAlphabetic(c) == c \in (65 .. 90) \cup (97 .. 122)

\* name.trim_end_matches(|c: char| !c.is_alphabetic())
RECURSIVE TrimEnd(_)
TrimEnd(name) ==
    IF name = << >> THEN name
    ELSE IF IsAlphabetic(name[Len(name)]) THEN name
    ELSE TrimEnd(SubSeq(name, 1, Len(name) - 1))

\* "run1", "run2", "hop1"
FrameLabels == { << 114, 117, 110, 49 >>, << 114, 117, 110, 50 >>,
                 << 104, 111, 112, 49 >> }

\* the keyframes of the model the scene loads: static ones with a label,
\* animated ones; vertices_ok tells whether Mdl::vertices returns for the
\* model's frames (every triangle index in range) or panics
SceneKeyframes ==
    { [variant |-> "Static", name |-> n] : n \in FrameLabels }
        \cup { [variant |-> "Animated", name |-> << >>] }

SceneMdlChoices ==
    { [keyframes |-> ks, vertices_ok |-> ok] :
        ks \in UNION { [1 .. n -> SceneKeyframes] : n \in 0 .. MaxKeys },
        ok \in BOOLEAN }

\* Duration::from_millis(100), line 82
SceneKeyframeDuration == 100000

\* line 64: KeyframeAnimationComponent::new()
InitAnim ==
    /\ sceneMdl \in SceneMdlChoices
    /\ animations = EmptyLibrary
    /\ current_animation = << >>
    /\ scenePc = "loop"
    /\ sceneIdx = 0
    /\ animTime = -1
    /\ animOut = NoAnimation
    /\ build \in {"debug", "release"}
    /\ timed = [kind |-> "skin", variant |-> "Static", durations |-> << >>]
    /\ elapsed = -1
    /\ selected = [kind |-> "None", index |-> 0]
    /\ PakIdle
    /\ MdlIdle
    /\ MeshIdle
    /\ ResIdle
    /\ HidIdle

\* lines 72-80: the clip of key k, inserted empty when the library lacks it
ClipOf(lib, k) == IF k \in DOMAIN lib THEN lib[k] ELSE << >>

\* the library with the clip of key k set to keyframes
WithClip(lib, k, keyframes) ==
    [n \in DOMAIN lib \cup {k} |-> IF n = k THEN keyframes ELSE lib[n]]

\* lines 65-86, one iteration of the for loop over mdl.keyframes
SceneLoop ==
    /\ scenePc = "loop"
    /\ sceneIdx < Len(sceneMdl.keyframes)
    /\ LET keyframe == sceneMdl.keyframes[sceneIdx + 1]
           k == TrimEnd(keyframe.name)
       IN  IF keyframe.variant = "Animated"
               THEN \* todo!()
                    /\ scenePc' = "panic_todo"
                    /\ UNCHANGED animations
           ELSE IF ~sceneMdl.vertices_ok
               THEN \* the clip is there (line 77) when mdl.vertices panics
                    /\ scenePc' = "panic_vertices"
                    /\ animations' = WithClip(animations, k, ClipOf(animations, k))
           ELSE /\ scenePc' = "loop"
                /\ animations' =
                       WithClip(animations, k,
                           add_keyframe(ClipOf(animations, k),
                                        Snapshot(sceneIdx + 1),
                                        SceneKeyframeDuration))
    /\ sceneIdx' = sceneIdx + 1
    /\ UNCHANGED << sceneMdl, current_animation, animTime, animOut >>
    /\ UNCHANGED nonAnimVars

\* lines 88-95: current_animation = Some(keys().next().unwrap()); a HashMap
\* iterates its keys in any order, and unwrap panics when there is none
SceneSelect ==
    /\ scenePc = "loop"
    /\ sceneIdx = Len(sceneMdl.keyframes)
    /\ IF DOMAIN animations = {}
          THEN /\ scenePc' = "panic_select"
               /\ UNCHANGED current_animation
          ELSE /\ scenePc' = "animate"
               /\ \E k \in DOMAIN animations : current_animation' = << k >>
    /\ UNCHANGED << sceneMdl, animations, sceneIdx, animTime, animOut >>
    /\ UNCHANGED nonAnimVars

\* line 96: animation_component.animate(&Duration::ZERO).unwrap()
SceneAnimate ==
    /\ scenePc = "animate"
    /\ animTime' = 0
    /\ animOut' = CallRecord(Component_animate(animations, current_animation,
                                                0, build), animations)
    /\ scenePc' = IF animOut'.kind = "Some" THEN "done" ELSE "panic_animate"
    /\ UNCHANGED << sceneMdl, animations, current_animation, sceneIdx >>
    /\ UNCHANGED nonAnimVars

NextAnim ==
    \/ SceneLoop
    \/ SceneSelect
    \/ SceneAnimate
    \/ \E time \in AnimateTimes : Animate(time)

SpecAnim == InitAnim /\ [][NextAnim]_vars

(***************************************************************************)
(* An Animation used through its methods: new, add_keyframe, animate.      *)
(***************************************************************************)
\* the clip "c"
ClipName == << 99 >>

\* the durations add_keyframe is called with, in microseconds
ClipDurations == {100000, 200000, 300000}

\* Animation::new(), selected in a component
InitClip ==
    /\ sceneMdl = << >>
    /\ animations = WithClip(EmptyLibrary, ClipName, << >>)
    /\ current_animation = << ClipName >>
    /\ scenePc = "api"
    /\ sceneIdx = 0
    /\ animTime = -1
    /\ animOut = NoAnimation
    /\ build \in {"debug", "release"}
    /\ timed = [kind |-> "skin", variant |-> "Static", durations |-> << >>]
    /\ elapsed = -1
    /\ selected = [kind |-> "None", index |-> 0]
    /\ PakIdle
    /\ MdlIdle
    /\ MeshIdle
    /\ ResIdle
    /\ HidIdle

\* animation.add_keyframe(vertices, duration)
AddKeyframe(duration) ==
    /\ scenePc = "api"
    /\ Len(animations[ClipName]) < MaxClip
    /\ animations' =
           WithClip(animations, ClipName,
               add_keyframe(animations[ClipName],
                            Snapshot(Len(animations[ClipName]) + 1), duration))
    /\ UNCHANGED << sceneMdl, current_animation, scenePc, sceneIdx, animTime,
                    animOut >>
    /\ UNCHANGED nonAnimVars

NextClip ==
    \/ \E duration \in ClipDurations : AddKeyframe(duration)
    \/ \E time \in AnimateTimes : Animate(time)

SpecClip == InitClip /\ [][NextClip]_vars

(***************************************************************************)
(* Claims about the animation library.                                     *)
(***************************************************************************)
\* C18: animate(time) returns None for every time when no clip is
\* selected, whatever clips the library holds.
C18_NoClipNoResult ==
    (animOut.kind # "NotCalled" /\ animOut.clip = << >>) =>
        animOut.kind = "None"

\* animate was called at a time above 0 on a library with clips and no
\* selection
C18_Witness ==
    /\ animOut.kind # "NotCalled"
    /\ animOut.clip = << >>
    /\ animOut.clips >= 1
    /\ animTime > 0

\* C19: the selected clip, when there is one, is a clip of the library, and
\* selecting the initial clip of a model fails without a panic when the
\* library has no clip to select.
C19_SelectionNamesClip ==
    /\ current_animation # << >> => current_animation[1] \in DOMAIN animations
    /\ scenePc # "panic_select"

\* the keyframes the selected clip held when animate was called
CalledClip == SubSeq(animations[animOut.clip[1]], 1, animOut.len)

\* the stored threshold of keyframe k of the called clip, in milliseconds
Threshold(k) == AsMillis(CalledClip[k].duration)

\* the thresholds do not decrease along the called clip
NonDecreasing ==
    \A k \in 1 .. (Len(CalledClip) - 1) : Threshold(k) <= Threshold(k + 1)

\* the keyframes of the called clip at or before the time, and after it
AtOrBefore == { k \in 1 .. Len(CalledClip) : Threshold(k) <= AsMillis(animTime) }
After == { k \in 1 .. Len(CalledClip) : Threshold(k) > AsMillis(animTime) }

\* C20: on a clip whose thresholds increase monotonically, find_keyframes
\* returns as previous keyframe the last one whose threshold is <= t and as
\* next keyframe the first one whose threshold is > t; when t lies inside
\* the span (both exist) the pair brackets t.
C20_FindKeyframesBrackets ==
    (animOut.kind \in {"Some", "Panic"} /\ NonDecreasing) =>
        /\ AtOrBefore # {} =>
              /\ animOut.prev \in AtOrBefore
              /\ \A k \in AtOrBefore : k <= animOut.prev
        /\ After # {} =>
              /\ animOut.next \in After
              /\ \A k \in After : animOut.next <= k
        /\ (AtOrBefore # {} /\ After # {}) =>
              /\ Threshold(animOut.prev) <= AsMillis(animTime)
              /\ AsMillis(animTime) < Threshold(animOut.next)

\* a clip of three increasing thresholds, queried inside its span
C20_Witness ==
    /\ animOut.kind \in {"Some", "Panic"}
    /\ Len(CalledClip) = 3
    /\ \A k \in 1 .. 2 : Threshold(k) < Threshold(k + 1)
    /\ AtOrBefore # {}
    /\ After # {}
    /\ animOut.next = 2

\* C21: for a clip with at least one keyframe and every time, the factor of
\* interpolate is well defined: time - threshold(prev) does not underflow and
\* threshold(next) - threshold(prev) is not zero, so that animate returns.
C21_InterpolationFactorDefined ==
    animOut.kind \in {"Some", "Panic"} =>
        /\ AsMillis(animTime) >= Threshold(animOut.prev)
        /\ Threshold(animOut.next) # Threshold(animOut.prev)
        /\ animOut.kind = "Some"

\* C22: animate on a selected clip returns a snapshot with as many vertices
\* as the bracketing keyframes; at a time equal to the previous keyframe's
\* threshold the snapshot is that keyframe's vertices.
C22_SnapshotInterpolates ==
    animOut.kind = "Some" =>
        /\ Len(animOut.vertices) = Len(CalledClip[animOut.prev].vertices)
        /\ Len(animOut.vertices) = Len(CalledClip[animOut.next].vertices)
        /\ AsMillis(animTime) = Threshold(animOut.prev) =>
              animOut.vertices = CalledClip[animOut.prev].vertices

(***************************************************************************)
(* The palette: resource::init lines 30-37 and palette_index_to_rgba.      *)
(***************************************************************************)
\* [[u8; 3]; 256]
PaletteEntries == 256
PaletteChannels == 3

\* the index that stands for a transparent pixel, and full alpha
TransparentIndex == 255
OpaqueAlpha == 255

\* the size of a well-formed gfx/palette.lmp
PaletteLen == PaletteEntries * PaletteChannels

\* the bytes of a palette file: two palettes that differ in every entry
PaletteFile(variant) ==
    [k \in 1 .. PaletteLen |-> (k * 7 + variant * 13) % 256]

PaletteVariants == {1, 2}

\* lines 30-37: rgb[index][channel] = palette[index * 3 + channel]
PaletteOfBytes(bytes) ==
    [index \in 0 .. PaletteEntries - 1 |->
        [channel \in 0 .. PaletteChannels - 1 |->
            bytes[index * PaletteChannels + channel + 1]]]

\* lines 44-57: the four bytes pushed for one colour index
Rgba_NoTransparency(pal, color_index) ==
    << pal[color_index][0], pal[color_index][1], pal[color_index][2],
       OpaqueAlpha >>

Rgba(pal, color_index) ==
    IF color_index = TransparentIndex
        THEN << 0, 0, 0, 0 >>
        ELSE << pal[color_index][0], pal[color_index][1], pal[color_index][2],
                OpaqueAlpha >>

\* lines 43-59: for color_index in indices.iter() { ... }
RECURSIVE RgbaLoop(_, _)
RgbaLoop(pal, idx) ==
    IF idx = << >> THEN << >>
    ELSE Rgba(pal, Head(idx)) \o RgbaLoop(pal, Tail(idx))

\* palette_index_to_rgba: GLOBAL_PALETTE.get().unwrap() panics before init
palette_index_to_rgba(idx) ==
    IF palette_cell.state # "set" THEN [st |-> "Panic", val |-> << >>]
    ELSE [st |-> "Ok", val |-> RgbaLoop(palette, idx)]

\* the index buffers of the model
MaxIndices == 3
IndexChoices == {0, 1, 254, TransparentIndex}
IndexBuffers == UNION { [1 .. n -> IndexChoices] : n \in 0 .. MaxIndices }

\* the state after init has stored one of the palettes, or before any init
InitPalette ==
    /\ \/ \E v \in PaletteVariants :
            /\ palette_cell = [state |-> "set", by |-> 0]
            /\ palette = PaletteOfBytes(PaletteFile(v))
       \/ /\ palette_cell = EmptyCell
          /\ palette = << >>
    /\ resources_cell = EmptyCell
    /\ initPc = [t \in Threads |-> "idle"]
    /\ initPath = [t \in Threads |-> ""]
    /\ opens = 0
    /\ paletteReads = 0
    /\ inits = 0
    /\ indices = << >>
    /\ rgba = NoRgba
    /\ PakIdle
    /\ SelIdle
    /\ MdlIdle
    /\ MeshIdle
    /\ AnimIdle
    /\ HidIdle

Convert(buf) ==
    /\ indices' = buf
    /\ rgba' = palette_index_to_rgba(buf)
    /\ UNCHANGED << resources_cell, palette_cell, palette, initPc, initPath,
                    opens, paletteReads, inits >>
    /\ UNCHANGED pakVars
    /\ UNCHANGED nonResVars

NextPalette == \E buf \in IndexBuffers : Convert(buf)

SpecPalette == InitPalette /\ [][NextPalette]_vars

\* C23: with the palette initialised, palette_index_to_rgba turns n indices
\* into 4n bytes in the same order: 0,0,0,0 for index 0xFF, and the
\* palette's red, green, blue and alpha 0xFF for every other index.
C23_PaletteIndexToRgba ==
    /\ (palette_cell.state = "set" /\ rgba.st # "None") => rgba.st = "Ok"
    /\ rgba.st = "Ok" =>
        /\ Len(rgba.val) = 4 * Len(indices)
        /\ \A k \in 1 .. Len(indices) :
              LET i == indices[k]
                  at == 4 * (k - 1)
              IN  IF i = 255
                    THEN /\ rgba.val[at + 1] = 0
                         /\ rgba.val[at + 2] = 0
                         /\ rgba.val[at + 3] = 0
                         /\ rgba.val[at + 4] = 0
                    ELSE /\ rgba.val[at + 1] = palette[i][0]
                         /\ rgba.val[at + 2] = palette[i][1]
                         /\ rgba.val[at + 3] = palette[i][2]
                         /\ rgba.val[at + 4] = 255

C23_Witness ==
    /\ rgba.st = "Ok"
    /\ Len(indices) = MaxIndices
    /\ indices[1] = 254
    /\ indices[2] = 255
    /\ indices[3] = 1
    /\ rgba.val[1] # rgba.val[9]

(***************************************************************************)
(* Frame::deserialize on its own: the frames of the model, at a cursor     *)
(* that need not be at the start of the buffer.                            *)
(***************************************************************************)
\* the padding bytes of a frame record: the k-th one is PadByte(seed, k)
PadSeeds == {0, 9, 77, 255}
PadByte(seed, k) == (seed * k) % 256

\* the bytes before the record, and the bytes after it
StartChoices == {0, 4}
TailChoices == {0, 5}

\* min, pad, max, pad, the name field, then x, y, z, pad per vertex
FrameRecordBytes(d) ==
    << 1, 2, 3, PadByte(d.seed, 1) >> \o << 250, 251, 252, PadByte(d.seed, 2) >>
        \o FrameNameBytes(1)
        \o Concat([v \in 1 .. d.num_verts |->
                     << v, v + 10, v + 20, PadByte(d.seed, v + 2) >>])

FrameBufferBytes(d) ==
    [k \in 1 .. d.start |-> 200 + k] \o FrameRecordBytes(d)
        \o [k \in 1 .. d.tail |-> 100 + k]

FrameChoices ==
    { [num_verts |-> n, seed |-> p, start |-> a, tail |-> z] :
        n \in -1 .. MaxVerts, p \in PadSeeds, a \in StartChoices,
        z \in TailChoices }

InitFrame ==
    /\ mdlDesc \in FrameChoices
    /\ \E cut \in mdlDesc.start .. Len(FrameBufferBytes(mdlDesc)) :
          mdlBuf = SubSeq(FrameBufferBytes(mdlDesc), 1, cut)
    /\ mdlOut = [st |-> "None", pos |-> 0, val |-> << >>]
    /\ PakIdle
    /\ SelIdle
    /\ MeshIdle
    /\ AnimIdle
    /\ ResIdle
    /\ HidIdle

\* Frame::deserialize(reader, num_verts, scale, origin), the cursor at start
DeserializeFrame ==
    /\ mdlOut.st = "None"
    /\ mdlOut' = Frame_deserialize(mdlBuf, mdlDesc.start, mdlDesc.num_verts)
    /\ UNCHANGED << mdlDesc, mdlBuf >>
    /\ UNCHANGED nonMdlVars

NextFrame == DeserializeFrame

SpecFrame == InitFrame /\ [][NextFrame]_vars

\* C24: a successful Frame decode advances the cursor by exactly
\* 4 + 4 + 16 + 4 * num_verts bytes and yields the quantized axes that were
\* written, whatever the padding bytes are.
C24_FrameAdvance ==
    mdlOut.st = "Ok" =>
        /\ mdlOut.pos = mdlDesc.start + 4 + 4 + 16 + 4 * mdlDesc.num_verts
        /\ mdlOut.val.min = << 1, 2, 3 >>
        /\ mdlOut.val.max = << 250, 251, 252 >>
        /\ Len(mdlOut.val.vertices) = mdlDesc.num_verts
        /\ \A v \in 1 .. mdlDesc.num_verts :
              mdlOut.val.vertices[v] = << v, v + 10, v + 20 >>

C24_Witness ==
    /\ mdlOut.st = "Ok"
    /\ mdlDesc.num_verts = MaxVerts
    /\ mdlDesc.seed = 255
    /\ mdlDesc.start = 4
    /\ mdlDesc.tail = 5
    /\ mdlOut.pos = Len(mdlBuf) - 5

(***************************************************************************)
(* Claims about the counts of the header and the indices of triangles.     *)
(***************************************************************************)
\* a decode that returns a model returns one with the header's counts
CountsOfDecodedModel ==
    mdlOut.st = "Ok" =>
        /\ Len(mdlOut.val.skins) = MeshCounts(mdlDesc).num_skins
        /\ Len(mdlOut.val.skin_coords) = MeshCounts(mdlDesc).num_verts
        /\ Len(mdlOut.val.triangles) = MeshCounts(mdlDesc).num_tris
        /\ Len(mdlOut.val.keyframes) = MeshCounts(mdlDesc).num_frames
        /\ mdlOut.val.num_verts = MeshCounts(mdlDesc).num_verts

\* C25: a decode that succeeds yields num_skins skins, num_verts skin
\* coordinates, num_tris triangles and num_frames keyframes and exposes the
\* header's num_verts; a header with a negative count makes the decode fail
\* with an error.
C25_CountsMatchOrError ==
    (mdlOut.st # "None" /\ HeaderAccepted) =>
        /\ CountsOfDecodedModel
        /\ MeshCounts(mdlDesc).num_verts < 0 => mdlOut.st = "Err"

\* C28: in a successfully decoded model every triangle's three indices are
\* below the vertex count, and vertices(frame) on a frame of the model
\* never indexes past the frame's vertices or the skin coordinates.
C28_IndicesBelowNumVerts ==
    /\ mdlOut.st = "Ok" =>
          \A k \in 1 .. Len(mdlOut.val.triangles) : \A i \in 1 .. 3 :
              mdlOut.val.triangles[k].indices[i]
                  \in 0 .. (mdlOut.val.num_verts - 1)
    /\ meshVtx.st # "None" => meshVtx.st = "Ok"

(***************************************************************************)
(* Claims about the library scene assembly builds.                         *)
(***************************************************************************)
\* C26: within every clip scene assembly builds, the k-th keyframe added
\* carries a threshold strictly greater than the (k-1)-th one's.
C26_ThresholdsIncrease ==
    \A name \in DOMAIN animations :
        \A k \in 2 .. Len(animations[name]) :
            animations[name][k].duration > animations[name][k - 1].duration

\* the places <<clip, position>> of the library that hold the snapshot of
\* the model's i-th keyframe
PlacesOf(i) ==
    { pl \in UNION { { << name, k >> : k \in 1 .. Len(animations[name]) } :
                     name \in DOMAIN animations } :
        animations[pl[1]][pl[2]].vertices = Snapshot(i) }

\* the number of keyframes over all clips
RECURSIVE TotalKeyframes(_)
TotalKeyframes(names) ==
    IF names = {} THEN 0
    ELSE LET name == CHOOSE x \in names : TRUE
         IN  Len(animations[name]) + TotalKeyframes(names \ {name})

\* the first n keyframes of the model are grouped as scene assembly groups
\* static keyframes: each in one place, in the clip of its trimmed label,
\* every clip in the model's keyframe order, and nothing else in the library
GroupedUpTo(n) ==
    /\ \A i \in 1 .. n :
          sceneMdl.keyframes[i].variant = "Static" =>
              /\ Cardinality(PlacesOf(i)) = 1
              /\ \A pl \in PlacesOf(i) :
                    pl[1] = TrimEnd(sceneMdl.keyframes[i].name)
    /\ \A i, j \in 1 .. n : \A pi \in PlacesOf(i) : \A pj \in PlacesOf(j) :
          (i < j /\ pi[1] = pj[1]) => pi[2] < pj[2]
    /\ TotalKeyframes(DOMAIN animations) = n

\* while no iteration has panicked, the keyframes consumed so far are grouped
GroupedWhileNoPanic ==
    scenePc \notin {"panic_todo", "panic_vertices"} => GroupedUpTo(sceneIdx)

\* C27: scene assembly puts every static keyframe of the model into exactly
\* one clip, the one keyed by its label without the trailing non-alphabetic
\* characters, in the model's keyframe order, and the clips together hold
\* as many keyframes as the model has.
C27_StaticKeyframesGrouped ==
    (scenePc # "loop" \/ sceneIdx = Len(sceneMdl.keyframes)) =>
        GroupedUpTo(Len(sceneMdl.keyframes))

(***************************************************************************)
(* resource::init: the two get_or_init calls, by several threads.          *)
(***************************************************************************)
\* the largest number of init calls of a run
MaxInits == 2

\* "gfx/palette.lmp"
PaletteName ==
    << 103, 102, 120, 47, 112, 97, 108, 101, 116, 116, 101, 46, 108, 109, 112 >>

\* an archive file whose one record is the palette: header, payload, record
PaletteArchive(sig, payload) ==
    sig \o I32ToLeBytes(PakHeaderLen + Len(payload)) \o I32ToLeBytes(PakEntryLen)
        \o payload
        \o RecordBytes([name |-> PaletteName, offset |-> PakHeaderLen,
                        size |-> Len(payload)])

\* the paths init is called with: two archives with different palettes, a
\* path with no file, a file with a bad signature, an archive without a
\* palette, an archive whose palette has 4 bytes
InitPaths == {"pak0", "pak1", "missing", "badsig", "nopalette", "shortpalette"}

\* File::open(path) finds a file
DiskHas(path) == path # "missing"

\* the bytes of the file at path
DiskFile(path) ==
    CASE path = "pak0" -> PaletteArchive(PackSignature, PaletteFile(1))
      [] path = "pak1" -> PaletteArchive(PackSignature, PaletteFile(2))
      [] path = "badsig" -> PaletteArchive(<< 80, 65, 67, 77 >>, PaletteFile(1))
      [] path = "nopalette" ->
            ArchiveBytes(PackSignature, DirAt, PakEntryLen,
                         << [name |-> NameA, offset |-> PakHeaderLen, size |-> 2] >>)
      [] path = "shortpalette" -> PaletteArchive(PackSignature, AssetBytes)
      [] OTHER -> << >>

\* Pak::read(name) in one piece, as a thread that holds the guard runs it:
\* directory.get, vec![0; size as usize] (a negative size panics), seek
\* (a negative offset is refused), read_exact
Pak_read(f, dir, pos, name) ==
    IF name \notin DOMAIN dir
        THEN [kind |-> "Err", bytes |-> << >>, pos |-> pos]
    ELSE LET offset == dir[name][1]
             size == dir[name][2]
         IN  IF size < 0
                 THEN [kind |-> "Panic", bytes |-> << >>, pos |-> pos]
             ELSE IF SeekTarget(pos, offset) < 0
                 THEN [kind |-> "Err", bytes |-> << >>, pos |-> pos]
             ELSE IF offset + size > Len(f)
                 THEN [kind |-> "Err", bytes |-> << >>,
                       pos |-> IF offset > Len(f) THEN offset ELSE Len(f)]
             ELSE [kind |-> "Ok", bytes |-> SubSeq(f, offset + 1, offset + size),
                   pos |-> offset + size]

SetCell == [state |-> "set", by |-> 0]
RunningCell(t) == [state |-> "running", by |-> t]

InitInit ==
    /\ ResIdle
    /\ PakIdle
    /\ SelIdle
    /\ MdlIdle
    /\ MeshIdle
    /\ AnimIdle
    /\ HidIdle

\* a thread calls init(path)
InitCall(t, path) ==
    /\ initPc[t] = "idle"
    /\ inits < MaxInits
    /\ inits' = inits + 1
    /\ initPc' = [initPc EXCEPT ![t] = "resources"]
    /\ initPath' = [initPath EXCEPT ![t] = path]
    /\ UNCHANGED << resources_cell, palette_cell, palette, opens, paletteReads,
                    indices, rgba >>
    /\ UNCHANGED pakVars
    /\ UNCHANGED nonResVars

\* line 22, GLOBAL_RESOURCES.get_or_init: a set cell is returned as it is,
\* an empty one starts the closure, one whose closure another thread runs
\* makes the caller wait
ResourcesGetOrInit(t) ==
    /\ initPc[t] = "resources"
    /\ resources_cell.state # "running"
    /\ IF resources_cell.state = "set"
          THEN /\ initPc' = [initPc EXCEPT ![t] = "palette"]
               /\ UNCHANGED resources_cell
          ELSE /\ initPc' = [initPc EXCEPT ![t] = "opening"]
               /\ resources_cell' = RunningCell(t)
    /\ UNCHANGED << palette_cell, palette, initPath, opens, paletteReads, inits,
                    indices, rgba >>
    /\ UNCHANGED pakVars
    /\ UNCHANGED nonResVars

\* the closure of line 22, Mutex::new(Pak::open(path).unwrap()): an Err of
\* File::open or of Pak::open, or a panic inside Pak::open, unwinds out of
\* get_or_init and leaves the cell empty
OpenArchive(t) ==
    /\ initPc[t] = "opening"
    /\ IF ~DiskHas(initPath[t])
          THEN /\ initPc' = [initPc EXCEPT ![t] = "panicked"]
               /\ resources_cell' = EmptyCell
               /\ UNCHANGED << opens, file, fpos, directory, pak >>
          ELSE LET r == Pak_open(DiskFile(initPath[t]))
               IN  /\ opens' = opens + 1
                   /\ IF r.status = "open"
                         THEN /\ initPc' = [initPc EXCEPT ![t] = "palette"]
                              /\ resources_cell' = SetCell
                              /\ file' = DiskFile(initPath[t])
                              /\ fpos' = r.pos
                              /\ directory' = r.directory
                              /\ pak' = "open"
                         ELSE /\ initPc' = [initPc EXCEPT ![t] = "panicked"]
                              /\ resources_cell' = EmptyCell
                              /\ UNCHANGED << file, fpos, directory, pak >>
    /\ UNCHANGED << palette_cell, palette, initPath, paletteReads, inits,
                    indices, rgba >>
    /\ UNCHANGED << records, header, holder, poisoned, pc, req, ent, result,
                    lookups >>
    /\ UNCHANGED nonResVars

\* line 23, GLOBAL_PALETTE.get_or_init; init returns when the cell is set
PaletteGetOrInit(t) ==
    /\ initPc[t] = "palette"
    /\ palette_cell.state # "running"
    /\ IF palette_cell.state = "set"
          THEN /\ initPc' = [initPc EXCEPT ![t] = "idle"]
               /\ UNCHANGED palette_cell
          ELSE /\ initPc' = [initPc EXCEPT ![t] = "reading"]
               /\ palette_cell' = RunningCell(t)
    /\ UNCHANGED << resources_cell, palette, initPath, opens, paletteReads,
                    inits, indices, rgba >>
    /\ UNCHANGED pakVars
    /\ UNCHANGED nonResVars

\* the closure of lines 23-38: lock().unwrap() panics on a poisoned Mutex;
\* read(..).unwrap() panics on an Err while the guard, a temporary of the
\* statement, is alive, which poisons the Mutex; the loop of lines 31-35
\* panics at palette[index * 3 + channel] when the file has fewer than 768
\* bytes, after the guard is gone; every panic leaves the cell empty
ReadPalette(t) ==
    /\ initPc[t] = "reading"
    /\ IF poisoned
          THEN /\ initPc' = [initPc EXCEPT ![t] = "panicked"]
               /\ palette_cell' = EmptyCell
               /\ UNCHANGED << palette, paletteReads, fpos, poisoned >>
          ELSE LET r == Pak_read(file, directory, fpos, PaletteName)
               IN  /\ fpos' = r.pos
                   /\ IF r.kind # "Ok"
                         THEN /\ initPc' = [initPc EXCEPT ![t] = "panicked"]
                              /\ palette_cell' = EmptyCell
                              /\ poisoned' = TRUE
                              /\ UNCHANGED << palette, paletteReads >>
                      ELSE IF Len(r.bytes) < PaletteLen
                         THEN /\ initPc' = [initPc EXCEPT ![t] = "panicked"]
                              /\ palette_cell' = EmptyCell
                              /\ paletteReads' = paletteReads + 1
                              /\ UNCHANGED << palette, poisoned >>
                         ELSE /\ initPc' = [initPc EXCEPT ![t] = "idle"]
                              /\ palette_cell' = SetCell
                              /\ palette' = PaletteOfBytes(r.bytes)
                              /\ paletteReads' = paletteReads + 1
                              /\ UNCHANGED poisoned
    /\ UNCHANGED << resources_cell, initPath, opens, inits, indices, rgba >>
    /\ UNCHANGED << file, directory, pak, records, header, holder, pc, req,
                    ent, result, lookups >>
    /\ UNCHANGED nonResVars

NextInit ==
    \E t \in Threads :
        \/ \E path \in InitPaths : InitCall(t, path)
        \/ ResourcesGetOrInit(t)
        \/ OpenArchive(t)
        \/ PaletteGetOrInit(t)
        \/ ReadPalette(t)

SpecInit == InitInit /\ [][NextInit]_vars

\* C29: however often and from however many threads init is called, with
\* whatever paths, the archive file is opened at most once and the palette
\* is read at most once.
C29_InitOnce ==
    /\ opens <= 1
    /\ paletteReads <= 1

\* once a cell is set, no init opens or reads again, and the archive and
\* the palette keep their values
StoredValuesKept ==
    [][/\ resources_cell.state = "set" =>
            /\ resources_cell' = resources_cell
            /\ opens' = opens
            /\ file' = file
            /\ directory' = directory
       /\ palette_cell.state = "set" =>
            /\ palette_cell' = palette_cell
            /\ paletteReads' = paletteReads
            /\ palette' = palette]_vars

(***************************************************************************)
(* The HID event bus: one unbounded multi-consumer channel; subscribe      *)
(* spawns a thread that iterates a clone of the receiver.                  *)
(***************************************************************************)
\* the largest number of published events and of subscriber threads
MaxEvents == 3
MaxSubscribers == 2

\* HIDEvent: the variants (the f32 payload is not looked at by the bus)
HIDEvents == {"MoveForward", "MoveBackward"}

\* the events of a run are told apart by the order of their publish calls
EventIds == 1 .. MaxEvents

\* crossbeam's receive: the message leaves the channel for one receiver
Dequeue_Peek(q) == q

Dequeue(q) == Tail(q)

\* HIDEventBus::new(): the channel is empty and no thread is spawned
InitHid ==
    /\ queue = << >>
    /\ subscribers = 0
    /\ inHand = << >>
    /\ delivered = << >>
    /\ published = 0
    /\ PakIdle
    /\ SelIdle
    /\ MdlIdle
    /\ MeshIdle
    /\ AnimIdle
    /\ ResIdle

\* subscribe: receiver.clone() and thread::spawn
Subscribe ==
    /\ subscribers < MaxSubscribers
    /\ subscribers' = subscribers + 1
    /\ inHand' = Append(inHand, << >>)
    /\ delivered' = Append(delivered, << >>)
    /\ UNCHANGED << queue, published >>
    /\ UNCHANGED nonHidVars

\* publish: sender.send(event).unwrap(); send on an unbounded channel never
\* blocks, and it cannot fail while the bus holds its own receiver
Publish(event) ==
    /\ published < MaxEvents
    /\ published' = published + 1
    /\ queue' = Append(queue, [id |-> published + 1, event |-> event])
    /\ UNCHANGED << subscribers, inHand, delivered >>
    /\ UNCHANGED nonHidVars

\* a subscriber thread: receiver.into_iter() yields the next message
Receive(sub) ==
    /\ sub \in 1 .. subscribers
    /\ inHand[sub] = << >>
    /\ queue # << >>
    /\ inHand' = [inHand EXCEPT ![sub] = << Head(queue) >>]
    /\ queue' = Dequeue(queue)
    /\ UNCHANGED << subscribers, delivered, published >>
    /\ UNCHANGED nonHidVars

\* a subscriber thread: callback(event)
Callback(sub) ==
    /\ sub \in 1 .. subscribers
    /\ inHand[sub] # << >>
    /\ delivered' = [delivered EXCEPT ![sub] = Append(@, inHand[sub][1])]
    /\ inHand' = [inHand EXCEPT ![sub] = << >>]
    /\ UNCHANGED << queue, subscribers, published >>
    /\ UNCHANGED nonHidVars

NextHid ==
    \/ Subscribe
    \/ \E event \in HIDEvents : Publish(event)
    \/ \E sub \in 1 .. MaxSubscribers : Receive(sub)
    \/ \E sub \in 1 .. MaxSubscribers : Callback(sub)

\* every spawned thread keeps running: the scheduler lets a thread that can
\* receive, or that holds an event, take its step
SpecHid ==
    /\ InitHid
    /\ [][NextHid]_vars
    /\ \A sub \in 1 .. MaxSubscribers :
          WF_vars(Receive(sub)) /\ WF_vars(Callback(sub))

\* the callbacks that got the event published as the e-th
DeliveriesOf(e) ==
    { << sub, k >> \in (1 .. subscribers) \X (1 .. MaxEvents) :
        k <= Len(delivered[sub]) /\ delivered[sub][k].id = e }

\* C30: with one or more subscribers, every published event is eventually
\* delivered to a subscriber callback, and at no time to more than one:
\* exactly once in total.
C30_DeliveredExactlyOnce ==
    /\ [](\A e \in EventIds : Cardinality(DeliveriesOf(e)) <= 1)
    /\ \A e \in EventIds :
          (published >= e /\ subscribers >= 1)
              ~> (Cardinality(DeliveriesOf(e)) = 1)

C30_Witness ==
    /\ subscribers = 2
    /\ published = MaxEvents
    /\ queue = << >>
    /\ \A e \in EventIds : Cardinality(DeliveriesOf(e)) = 1
    /\ delivered[1] # << >>
    /\ delivered[2] # << >>

====
